---------------------------- MODULE Spec2Model ----------------------------
(***************************************************************************)
(* A model of the de-identification pipeline: text extraction              *)
(* (extractor.py), entity detection (pii_detector.py), synthetic           *)
(* replacement (replacer.py) and the orchestration of the three by         *)
(* process_files (app.py).                                                 *)
(*                                                                         *)
(* Python strings are TLA+ strings, read character by character with      *)
(* SubSeq, so that `in`, startswith, lower, split, replace and the         *)
(* f-strings of the source are computed and not assumed.                   *)
(***************************************************************************)
EXTENDS Integers, Sequences, FiniteSets, TLC


\* Optional values: None, or <<v>> for the value v.
None == <<>>

(***************************************************************************)
(* str methods                                                             *)
(***************************************************************************)
\* s[i-1:i], the i-th character
char(s, i) == SubSeq(s, i, i)

\* The letters of an alphabet mapped to the letters at their places in another.
translation(from, to) ==
  [c \in {char(from, i) : i \in 1..Len(from)} |->
     char(to, CHOOSE i \in 1..Len(from) : char(from, i) = c)]

to_lower ==
  translation("ABCDEFGHIJKLMNOPQRSTUVWXYZ", "abcdefghijklmnopqrstuvwxyz")

to_upper ==
  translation("abcdefghijklmnopqrstuvwxyz", "ABCDEFGHIJKLMNOPQRSTUVWXYZ")

\* The character c as the table writes it, unchanged when it is not in it.
translate(c, table) == IF c \in DOMAIN table THEN table[c] ELSE c

RECURSIVE lower(_)
lower(s) ==
  IF s = "" THEN "" ELSE translate(char(s, 1), to_lower) \o lower(Tail(s))

RECURSIVE upper(_)
upper(s) ==
  IF s = "" THEN "" ELSE translate(char(s, 1), to_upper) \o upper(Tail(s))

\* p in s
contains(s, p) ==
  \E i \in 0..(Len(s) - Len(p)) : SubSeq(s, i + 1, i + Len(p)) = p

startswith(s, p) ==
  Len(s) >= Len(p) /\ SubSeq(s, 1, Len(p)) = p

\* s.replace(old, new): leftmost occurrences, not overlapping
RECURSIVE replace(_, _, _)
replace(s, old, new) ==
  IF Len(s) < Len(old) THEN s
  ELSE IF SubSeq(s, 1, Len(old)) = old
    THEN new \o replace(SubSeq(s, Len(old) + 1, Len(s)), old, new)
    ELSE char(s, 1) \o replace(Tail(s), old, new)

\* s.split(): the maximal runs of non-blank characters
RECURSIVE split(_)
split(s) ==
  IF s = "" THEN <<>>
  ELSE IF char(s, 1) = " " THEN split(Tail(s))
  ELSE LET n == IF \E i \in 1..Len(s) : char(s, i) = " "
                  THEN (CHOOSE i \in 1..Len(s) :
                          char(s, i) = " "
                          /\ \A j \in 1..(i - 1) : char(s, j) # " ") - 1
                  ELSE Len(s)
       IN  <<SubSeq(s, 1, n)>> \o split(SubSeq(s, n + 1, Len(s)))

\* re.sub(pattern, repl, s) for a pattern [^...] whose class is `keep`
RECURSIVE re_sub_not(_, _, _)
re_sub_not(keep, repl, s) ==
  IF s = "" THEN ""
  ELSE (IF contains(keep, char(s, 1)) THEN char(s, 1) ELSE repl)
       \o re_sub_not(keep, repl, Tail(s))

\* c * k
RECURSIVE repeat(_, _)
repeat(c, k) == IF k <= 0 THEN "" ELSE c \o repeat(c, k - 1)

(***************************************************************************)
(* replacer.py: SimplePIIFaker                                             *)
(***************************************************************************)

\* re.sub(r'[^a-z]', '', name_part.lower())
clean_for_email(name_part) ==
  re_sub_not("abcdefghijklmnopqrstuvwxyz", "", lower(name_part))

\* The values the Faker('en_IN') provider and the random module can return,
\* sampled: full names of two or more tokens, addresses with line breaks.
faker_name_male == {"Arjun Shah", "Neil D'Souza"}

faker_name_female == {"Diya Nair"}

faker_name == faker_name_male \cup faker_name_female

faker_email == {"user17@example.net"}

faker_address == {"12 MG Road\nPune 411001"}

faker_date_of_birth == {"07 March 1990", "21 November 1951"}

\* str(random.randint(lo, hi)), lo and hi given as decimal numerals: the two
\* ends of the range and, for every digit count in between, its least and
\* greatest numeral.
randint(lo, hi) ==
  {lo, hi}
    \cup {repeat("9", k) : k \in Len(lo)..(Len(hi) - 1)}
    \cup {"1" \o repeat("0", k - 1) : k \in (Len(lo) + 1)..Len(hi)}

\* ''.join(random_letters(length=n)).upper(), sampled
random_letters(n) == {repeat(c, n) : c \in {"A", "Z"}}

\* any(t in s for t in ts)
any_in(ts, s) == \E t \in ts : contains(s, t)

\* f"{label}:{original_value}"
cache_key(label, original_value) == label \o ":" \o original_value

\* 'patient name' in label_lower or label_lower == 'name'
is_patient_name(label) ==
  contains(lower(label), "patient name") \/ lower(label) = "name"

\* The email branch of generate_fake_value, for the name anchor it reads.
email_for(current_patient_name) ==
  IF current_patient_name # None /\ current_patient_name[1] # ""
  THEN LET name_parts ==
             split(replace(lower(current_patient_name[1]), "dr. ", ""))
       IN  IF Len(name_parts) >= 2
           THEN {clean_for_email(name_parts[1]) \o "."
                   \o clean_for_email(name_parts[Len(name_parts)])
                   \o "@" \o d :
                 d \in {"example.com", "example.org", "test.com",
                        "sample.org", "demo.net"}}
           ELSE {clean_for_email(name_parts[1]) \o "@" \o d :
                 d \in {"example.com", "example.org", "test.com"}}
  ELSE faker_email

\* A name branch that does not look at the honorific.
name_for_any(original_value) ==
  {[value |-> n, rule |-> "name"] : n \in faker_name}

\* The name branch: the generator chosen from the honorific of the original.
name_for(original_value) ==
  LET o == lower(original_value)
  IN  IF any_in({"mr.", "mr", "shri", "sri"}, o)
      THEN {[value |-> n, rule |-> "name_male"] : n \in faker_name_male}
      ELSE IF any_in({"mrs.", "ms.", "miss", "smt", "dr."}, o)
      THEN IF contains(o, "dr.")
           THEN {[value |-> "Dr. " \o n, rule |-> "dr_name"] :
                 n \in faker_name}
           ELSE {[value |-> n, rule |-> "name_female"] : n \in faker_name_female}
      ELSE {[value |-> n, rule |-> "name"] : n \in faker_name}

\* The medical identifier branches, tried in the order of the source.
identifier_for(l) ==
  LET has(t) == contains(l, t)
      ids(rule, prefix, nums) ==
        {[value |-> prefix \o n, rule |-> rule] : n \in nums}
  IN  IF has("hospital id")
      THEN ids("hospital id", "HOSP-",
               randint("1000000", "9999999"))
      ELSE IF has("patient id")
      THEN ids("patient id", "PAT-",
               randint("100000", "999999"))
      ELSE IF has("medical record number") \/ has("mrn")
      THEN ids("medical record number", "MRN",
               randint("100000", "9999999"))
      ELSE IF has("insurance id") \/ has("policy number")
      THEN ids("policy number", "POL-",
               randint("10000000", "99999999"))
      ELSE IF has("member id") \/ has("subscriber id")
      THEN ids("member id", "MEM-",
               randint("1000000", "9999999"))
      ELSE IF has("provider id")
      THEN ids("provider id", "PROV-",
               randint("1000", "9999"))
      ELSE IF has("npi number")
      THEN ids("npi number", "",
               randint("1000000000", "9999999999"))
      ELSE IF has("medical license") \/ has("license number")
      THEN UNION {ids("medical license", s \o "MED",
                      randint("10000", "99999")) :
                  s \in {"MH", "DL", "KA", "TN", "UP", "GJ", "RJ", "WB",
                         "AP", "MP"}}
      ELSE IF has("dea number")
      THEN UNION {ids("dea number", ls,
                      randint("1000000", "9999999")) :
                  ls \in random_letters(2)}
      ELSE {}

\* The branches after the identifiers: birth date, numeric identifiers, the
\* insurer names chosen on the value, and the generic fallback.
personal_for(label, original_value) ==
  LET l == lower(label)
      has(t) == contains(l, t)
      one(rule, vs) == {[value |-> v, rule |-> rule] : v \in vs}
  IN  IF has("date of birth") \/ has("dob") \/ has("birth")
      THEN one("date of birth", faker_date_of_birth)
      ELSE IF has("credit card")
      THEN one("credit card",
               {"****-****-****-" \o n :
                n \in randint("1000", "9999")})
      ELSE IF has("ssn") \/ has("social security") \/ has("aadhaar")
      THEN one("aadhaar", {repeat(d, 12) : d \in {"0", "9"}})
      ELSE IF has("passport")
      THEN one("passport",
               {ls \o n : ls \in random_letters(1),
                          n \in randint("1000000", "9999999")})
      ELSE IF has("driver license") \/ has("driving licence")
      THEN one("driver license",
               {s \o n :
                s \in {"DL", "MH", "KA", "TN", "UP", "GJ", "RJ"},
                n \in randint("10000000000", "99999999999")})
      ELSE IF any_in({"insurance", "assurance", "life", "general", "health",
                      "medical"}, lower(original_value))
      THEN one("insurance",
               {n : n \in
                 {"Apollo Munich Health Insurance", "HDFC Life Insurance",
                  "Max Life Insurance", "SBI Life Insurance",
                  "ICICI Prudential Life Insurance",
                  "Bajaj Allianz Life Insurance", "LIC of India",
                  "Star Health Insurance", "New India Assurance"}})
      ELSE LET safe_label ==
                 re_sub_not("ABCDEFGHIJKLMNOPQRSTUVWXYZ0123456789_", "_",
                            replace(upper(label), " ", "_"))
           IN  one("fallback", {"[FAKE_" \o safe_label \o "]"})

\* generate_fake_value on a cache miss: the if/elif chain on the lower-cased
\* label.  Each outcome is [value, rule]; rule names the branch taken.
fresh_value(label, original_value, current_patient_name) ==
  LET l == lower(label)
      has(t) == contains(l, t)
      one(rule, vs) == {[value |-> v, rule |-> rule] : v \in vs}
  IN  IF has("patient name") \/ has("name")
      THEN name_for(original_value)
      ELSE IF has("doctor") \/ has("primary doctor") \/ has("physician")
      THEN one("doctor",
               {"Dr. " \o n \o ", " \o s :
                n \in faker_name,
                s \in {"Cardiologist", "Neurologist", "Orthopedist",
                       "Dermatologist", "Pediatrician"}})
      ELSE IF has("email")
      THEN one("email", email_for(current_patient_name))
      ELSE IF has("phone number") \/ has("mobile number")
      THEN one("phone",
               {"+91-" \o n :
                n \in randint("6000000000", "9999999999")})
      ELSE IF has("address") \/ has("location")
      THEN one("address",
               {replace(a, "\n", ", ") : a \in faker_address})
      ELSE IF identifier_for(l) # {}
      THEN identifier_for(l)
      ELSE personal_for(label, original_value)


\* A generator that forgets what it generated.
store_nothing(cache, key, fake_value) == cache

\* self.replacement_cache[cache_key] = fake_value
store(cache, key, fake_value) == (key :> fake_value) @@ cache

\* generate_fake_value(label, original_value) on a generator whose cache and
\* name anchor are given: the outcomes [value, rule, cache, anchor].
generate_fake_value(cache, anchor, label, original_value) ==
  LET key == cache_key(label, original_value)
  IN  IF key \in DOMAIN cache
      THEN {[value |-> cache[key], rule |-> "cache", cache |-> cache,
             anchor |-> anchor]}
      ELSE {[value |-> g.value, rule |-> g.rule,
             cache |-> store(cache, key, g.value),
             anchor |-> IF is_patient_name(label) THEN <<g.value>> ELSE anchor] :
            g \in fresh_value(label, original_value, anchor)}

(***************************************************************************)
(* Mappings (Python dicts) are sequences of entries in insertion order:    *)
(* [label, list, values], a scalar being list = FALSE with one value.      *)
(***************************************************************************)
scalar(label, value) ==
  [label |-> label, list |-> FALSE, values |-> <<value>>]

many(label, values) == [label |-> label, list |-> TRUE, values |-> values]

labels_of(m) == {m[k].label : k \in 1..Len(m)}

\* m.get(label), None when the key is absent
get(m, label) ==
  IF label \in labels_of(m)
  THEN <<m[CHOOSE k \in 1..Len(m) : m[k].label = label]>>
  ELSE None

\* m[e.label] = e: in place for a key that exists, appended otherwise
put(m, e) ==
  IF e.label \in labels_of(m)
  THEN [k \in 1..Len(m) |-> IF m[k].label = e.label THEN e ELSE m[k]]
  ELSE Append(m, e)

\* A pass that ends after its first loop.
first_loop_only(m) ==
  LET names == {k \in 1..Len(m) : is_patient_name(m[k].label)}
      f == IF names = {} THEN 0
           ELSE CHOOSE k \in names : \A k2 \in names : k <= k2
  IN  IF f = 0 \/ m[f].values = <<>> THEN <<>>
      ELSE [j \in 1..Len(m[f].values) |-> [k |-> f, j |-> j, kind |-> "call"]]

\* replace_pii_json: the statements it executes for a mapping, in order.
\* First loop: the calls of the first patient-name entry, then the anchor
\* assignment, then break.  Second loop: every entry but the one already in
\* fake_json.
replace_pii_json_steps(m) ==
  LET names == {k \in 1..Len(m) : is_patient_name(m[k].label)}
      f == IF names = {} THEN 0
           ELSE CHOOSE k \in names : \A k2 \in names : k <= k2
      entry(k) ==
        IF m[k].values = <<>> THEN <<[k |-> k, j |-> 0, kind |-> "empty"]>>
        ELSE [j \in 1..Len(m[k].values) |-> [k |-> k, j |-> j, kind |-> "call"]]
      done == IF f = 0 THEN {} ELSE {m[f].label}
      RECURSIVE rest(_)
      rest(k) ==
        IF k > Len(m) THEN <<>>
        ELSE IF is_patient_name(m[k].label) /\ m[k].label \in done
        THEN rest(k + 1)
        ELSE entry(k) \o rest(k + 1)
  IN  (IF f = 0 THEN <<>>
       ELSE entry(f) \o <<[k |-> f, j |-> 0, kind |-> "anchor"]>>)
      \o rest(1)

(***************************************************************************)
(* extractor.py: UniversalTextExtractor                                    *)
(*                                                                         *)
(* A file is what the libraries find in it: [path, exists, fault, ...].    *)
(* fault is the message of the exception raised when the format library    *)
(* opens or parses the file ("" when it does not raise).  An OCR attempt   *)
(* is [ok, text]: pytesseract returned text, or raised.                    *)
(***************************************************************************)
\* s.strip()
RECURSIVE strip(_)
strip(s) ==
  IF s = "" THEN ""
  ELSE IF contains(" \n", char(s, 1)) THEN strip(Tail(s))
  ELSE IF contains(" \n", char(s, Len(s))) THEN strip(SubSeq(s, 1, Len(s) - 1))
  ELSE s

\* s.split('\n')
RECURSIVE split_lines(_)
split_lines(s) ==
  IF ~contains(s, "\n") THEN <<s>>
  ELSE LET n == CHOOSE i \in 1..Len(s) :
                  char(s, i) = "\n" /\ ~contains(SubSeq(s, 1, i - 1), "\n")
       IN  <<SubSeq(s, 1, n - 1)>> \o split_lines(SubSeq(s, n + 1, Len(s)))

\* sep.join(parts)
RECURSIVE join(_, _)
join(sep, parts) ==
  IF parts = <<>> THEN ""
  ELSE IF Len(parts) = 1 THEN parts[1]
  ELSE parts[1] \o sep \o join(sep, Tail(parts))

\* [x for x in xs if x.strip()], each kept as f(x)
RECURSIVE non_blank(_, _)
non_blank(xs, stripped) ==
  IF xs = <<>> THEN <<>>
  ELSE (IF strip(xs[1]) # ""
        THEN <<IF stripped THEN strip(xs[1]) ELSE xs[1]>> ELSE <<>>)
       \o non_blank(Tail(xs), stripped)

\* os.path.splitext(path)[1]
splitext(p) ==
  LET dots == {i \in 2..Len(p) : char(p, i) = "." /\ char(p, i - 1) # "/"}
      last == CHOOSE i \in dots : \A j \in dots : j <= i
  IN  IF dots = {} \/ contains(SubSeq(p, last, Len(p)), "/") THEN ""
      ELSE SubSeq(p, last, Len(p))

\* The extension as it is written.
file_ext_cased(path) == splitext(path)

\* os.path.splitext(path.lower())[1]
file_ext(path) == splitext(lower(path))

supported_formats ==
  [images |-> {".png", ".jpg", ".jpeg", ".bmp", ".tiff", ".gif"},
   pdfs |-> {".pdf"},
   word |-> {".docx", ".doc"},
   excel |-> {".xlsx", ".xls", ".csv"},
   archives |-> {".zip"}]

\* get_supported_extensions(), as a set
get_supported_extensions ==
  UNION {supported_formats[k] : k \in DOMAIN supported_formats}

\* is_supported(file_path)
is_supported(file_path) ==
  splitext(lower(file_path)) \in get_supported_extensions

\* The OCR attempts in order: the longest stripped text wins, a raising
\* attempt is skipped; then the non-blank lines, stripped.
RECURSIVE best_ocr(_, _)
best_ocr(attempts, best_text) ==
  IF attempts = <<>> THEN best_text
  ELSE best_ocr(Tail(attempts),
         IF attempts[1].ok /\ Len(strip(attempts[1].text)) > Len(strip(best_text))
         THEN attempts[1].text ELSE best_text)

ocr_cleaned(attempts) ==
  join("\n", non_blank(split_lines(best_ocr(attempts, "")), TRUE))

_extract_from_image(f) ==
  IF f.fault # "" THEN "OCR Error: " \o f.fault
  ELSE IF ocr_cleaned(f.ocr) # "" THEN ocr_cleaned(f.ocr)
  ELSE "No text found in image"

\* A rasterising of every page of the document.
convert_all_pages(f) == f.ocr

\* convert_from_path(pdf_path, dpi=200, first_page=1, last_page=5): the page
\* images, each given as the OCR attempts on it
convert_from_path(f) ==
  SubSeq(f.ocr, 1, IF Len(f.ocr) < 5 THEN Len(f.ocr) ELSE 5)

\* f.pages: the text layer of each page; f.raster_fault: what
\* convert_from_path raises; f.ocr: the OCR attempts on each page image.
_extract_from_pdf(f) ==
  IF f.fault # "" THEN "Error processing PDF: " \o f.fault
  ELSE IF non_blank(f.pages, TRUE) # <<>>
  THEN join("\n\n", non_blank(f.pages, TRUE))
  ELSE IF f.raster_fault # "" THEN "PDF OCR failed: " \o f.raster_fault
  ELSE LET pages == convert_from_path(f)
           ocr_texts ==
             non_blank([i \in 1..Len(pages) |->
                          ocr_cleaned(SubSeq(pages[i], 1, 2))], FALSE)
       IN  IF ocr_texts # <<>> THEN join("\n\n", ocr_texts)
           ELSE "No text could be extracted from this PDF"

\* One line per row: its non-blank cells pipe-joined (stripped in a Word
\* table, as they are in a sheet), a row without any left out.
RECURSIVE table_rows(_, _)
table_rows(rows, stripped) ==
  IF rows = <<>> THEN <<>>
  ELSE (IF non_blank(rows[1], stripped) # <<>>
        THEN <<join(" | ", non_blank(rows[1], stripped))>> ELSE <<>>)
       \o table_rows(Tail(rows), stripped)

\* The header and footer lines, section by section.
RECURSIVE header_footer(_)
header_footer(sections) ==
  IF sections = <<>> THEN <<>>
  ELSE LET marked(m, ps) == [i \in 1..Len(ps) |-> m \o ps[i]]
       IN  marked("[HEADER] ", non_blank(sections[1].header, FALSE))
           \o marked("[FOOTER] ", non_blank(sections[1].footer, FALSE))
           \o header_footer(Tail(sections))

\* A strategy whose handler reports nothing: no text comes back from a fault.
_extract_from_word_silent(f) ==
  IF f.fault # "" THEN ""
  ELSE join("\n", non_blank(f.paragraphs, FALSE) \o table_rows(f.rows, TRUE)
                    \o header_footer(f.sections))

\* f.paragraphs, f.rows (the rows of all tables, in order), f.sections
_extract_from_word(f) ==
  IF f.fault # "" THEN "Error processing Word document: " \o f.fault
  ELSE LET all_text == non_blank(f.paragraphs, FALSE) \o table_rows(f.rows, TRUE)
                         \o header_footer(f.sections)
       IN  IF join("\n", all_text) # "" THEN join("\n", all_text)
           ELSE "No text found in Word document"

\* The lines of the sheets: f.sheets[i] = [name, columns, rows], a cell
\* being a string ("" for a null one).
RECURSIVE sheet_lines(_)
sheet_lines(sheets) ==
  IF sheets = <<>> THEN <<>>
  ELSE LET sh == sheets[1]
           cols == SelectSeq(sh.columns, LAMBDA c : c # "nan")
       IN  <<"=== SHEET: " \o sh.name \o " ===",
             "[HEADERS] " \o join(" | ", cols)>>
           \o table_rows(sh.rows, FALSE) \o <<"">> \o sheet_lines(Tail(sheets))

\* A CSV file is the one sheet 'Sheet1'.
_extract_from_excel(f) ==
  IF f.fault # "" THEN "Error processing Excel file: " \o f.fault
  ELSE LET excel_data ==
             IF file_ext(f.path) = ".csv"
             THEN <<[f.sheets[1] EXCEPT !.name = "Sheet1"]>> ELSE f.sheets
           full_text == join("\n", sheet_lines(excel_data))
       IN  IF full_text # "" THEN full_text ELSE "No text found in Excel file"

\* Every member of an archive.
zip_members_all(f) == f.members

\* The members of an archive that are processed: supported, no archive
\* themselves, the first ten.
zip_members(f) ==
  LET all_supported == UNION {supported_formats[k] : k \in DOMAIN supported_formats}
      keep(m) == file_ext(m.path) \in all_supported /\ file_ext(m.path) # ".zip"
      extracted_files == SelectSeq(f.members, keep)
  IN  SubSeq(extracted_files, 1,
             IF Len(extracted_files) < 10 THEN Len(extracted_files) ELSE 10)

RECURSIVE extract_text(_)

\* The lines of the members: a marker, the text and an empty line for each
\* member whose text is no error and not blank.
RECURSIVE zip_lines(_)
zip_lines(members) ==
  IF members = <<>> THEN <<>>
  ELSE LET text == extract_text(members[1])
       IN  (IF ~startswith(text, "Error:") /\ strip(text) # ""
            THEN <<"=== FILE: " \o members[1].path \o " ===", text, "">>
            ELSE <<>>)
           \o zip_lines(Tail(members))

\* f.members: the files below the temporary directory, as os.walk lists them
_extract_from_zip(f) ==
  IF f.fault # "" THEN "Error processing ZIP file: " \o f.fault
  ELSE IF zip_lines(zip_members(f)) # <<>>
  THEN join("\n", zip_lines(zip_members(f)))
  ELSE "No text could be extracted from files in ZIP archive"

\* extract_text(file_path).  Every strategy catches what is raised inside it,
\* so the handler of extract_text itself is never entered.
extract_text(f) ==
  IF ~f.exists THEN "Error: File '" \o f.path \o "' not found"
  ELSE LET e == file_ext(f.path)
       IN  IF e \in supported_formats.images THEN _extract_from_image(f)
           ELSE IF e \in supported_formats.pdfs THEN _extract_from_pdf(f)
           ELSE IF e \in supported_formats.word THEN _extract_from_word(f)
           ELSE IF e \in supported_formats.excel THEN _extract_from_excel(f)
           ELSE IF e \in supported_formats.archives THEN _extract_from_zip(f)
           ELSE "Error: Unsupported file format '" \o e \o "'"

\* A directory made by hand and removed by the last statement of the body:
\* it stays when the body is left by a return or by an exception.
rmtree_at_end(dirs, temp_dir, ending) ==
  IF ending = "end" THEN dirs \ {temp_dir} ELSE dirs

\* with tempfile.TemporaryDirectory() as temp_dir: the directory is removed
\* when the body is left, by its end, by a return or by an exception.
TemporaryDirectory_exit(dirs, temp_dir, ending) == dirs \ {temp_dir}

\* The temporary directories that exist when _extract_from_zip(f) returns.
\* The body of the with statement is left by the exception of ZipFile or
\* extractall, or by one of its two returns; what a member raises is caught
\* inside the loop.
_extract_from_zip_dirs(f) ==
  LET temp_dir == "/tmp/tmp_" \o f.path
      ending == IF f.fault # "" THEN "raise" ELSE "return"
  IN  TemporaryDirectory_exit({temp_dir}, temp_dir, ending)

\* The temporary directories that exist when extract_text(f) returns.
extract_text_dirs(f) ==
  IF f.exists /\ file_ext(f.path) \in supported_formats.archives
  THEN _extract_from_zip_dirs(f)
  ELSE {}

\* Files, by what is in them.
image(path, fault, ocr) ==
  [path |-> path, exists |-> TRUE, fault |-> fault, ocr |-> ocr]

pdf(path, fault, pages, raster_fault, ocr) ==
  [path |-> path, exists |-> TRUE, fault |-> fault, pages |-> pages,
   raster_fault |-> raster_fault, ocr |-> ocr]

word(path, fault, paragraphs, rows, sections) ==
  [path |-> path, exists |-> TRUE, fault |-> fault, paragraphs |-> paragraphs,
   rows |-> rows, sections |-> sections]

excel(path, fault, sheets) ==
  [path |-> path, exists |-> TRUE, fault |-> fault, sheets |-> sheets]

zip(path, fault, members) ==
  [path |-> path, exists |-> TRUE, fault |-> fault, members |-> members]

other(path, exists) == [path |-> path, exists |-> exists, fault |-> ""]

read(text) == [ok |-> TRUE, text |-> text]

raised == [ok |-> FALSE, text |-> ""]


(***************************************************************************)
(* pii_detector.py: CleanPIIDetector                                       *)
(***************************************************************************)
pii_labels ==
  {"Patient Name", "Address", "email", "Emergency Name",
   "Primary Doctor", "Doctor", "Physician",
   "phone number", "mobile number", "date of birth", "credit card",
   "social security number", "ssn", "passport number",
   "driver license", "ip address", "password",
   "Hospital ID", "Medical Record Number", "Patient ID",
   "Insurance ID", "Policy Number", "Member ID", "Subscriber ID",
   "Provider ID", "NPI Number", "Medical License", "DEA Number",
   "nurse", "medical facility", "medical insurance", "health insurance"}

phi_labels ==
  {"medical condition", "disease", "diagnosis", "symptom", "disorder",
   "medication", "drug", "prescription", "treatment", "therapy",
   "procedure", "surgery", "operation", "medical test", "lab test",
   "blood pressure", "heart rate", "temperature", "weight", "height",
   "allergy", "dosage", "medical history", "vital signs", "blood group",
   "Age", "gender"}

\* self.model after GLiNER.from_pretrained returned; None after it raised
GLiNER == <<"urchade/gliner_multi_pii-v1">>

\* The phrases the model recognises and the label it gives each.
Vocabulary ==
  { [label |-> "Patient Name", text |-> "Mr. Ravi Kumar"],
    [label |-> "email", text |-> "rk@mail.in"],
    [label |-> "Patient Name", text |-> "Sita Rao"],
    [label |-> "Patient Name", text |-> "Uma Das"],
    [label |-> "email", text |-> "sr@mail.in"],
    [label |-> "drug", text |-> "Aspirin"],
    [label |-> "medication", text |-> "Metformin"] }

\* text.find(p) + 1, 0 when p is not in text
find(text, p) ==
  IF contains(text, p)
  THEN CHOOSE i \in 1..Len(text) :
         /\ SubSeq(text, i, i + Len(p) - 1) = p
         /\ \A j \in 1..(i - 1) : SubSeq(text, j, j + Len(p) - 1) # p
  ELSE 0

RECURSIVE in_text_order(_, _)
in_text_order(es, text) ==
  IF es = {} THEN <<>>
  ELSE LET e == CHOOSE e \in es :
                  \A o \in es : find(text, e.text) <= find(text, o.text)
       IN  <<e>> \o in_text_order(es \ {e}, text)

RECURSIVE pick(_, _, _)
pick(s, I, k) ==
  IF k > Len(s) THEN <<>>
  ELSE (IF k \in I THEN <<s[k]>> ELSE <<>>) \o pick(s, I, k + 1)

\* self.model.predict_entities(text, labels, threshold): the entities of a
\* call are spans of the text labelled from `labels`, in text order; which of
\* the recognisable ones pass the threshold is the model's choice.  The call
\* may raise, and so may the loop over what it returned: after all mentions
\* it meets an entity without the key 'label'.
predict_entities(text, labels) ==
  LET mentions == in_text_order(
                    {e \in Vocabulary : e.label \in labels /\ contains(text, e.text)},
                    text)
  IN  {[ok |-> TRUE, entities |-> pick(mentions, I, 1), error |-> ""] :
         I \in SUBSET (1..Len(mentions))}
        \cup {[ok |-> FALSE, entities |-> <<>>,
               error |-> "CUDA out of memory"]}
        \cup {[ok |-> FALSE, entities |-> mentions, error |-> "'label'"] :
              x \in IF mentions = <<>> THEN {} ELSE {1}}

\* A loop over the entities that keeps the last value of a label.
RECURSIVE collapse_overwrite(_, _)
collapse_overwrite(entities, simple) ==
  IF entities = <<>> THEN simple
  ELSE collapse_overwrite(Tail(entities),
         put(simple, scalar(entities[1].label, entities[1].text)))

\* The loop over the entities: label -> value, a list from the second value
\* of a label on.
RECURSIVE collapse(_, _)
collapse(entities, simple) ==
  IF entities = <<>> THEN simple
  ELSE LET e == entities[1]
           old == get(simple, e.label)
       IN  collapse(Tail(entities),
             IF old = None THEN Append(simple, scalar(e.label, e.text))
             ELSE put(simple, many(e.label, Append(old[1].values, e.text))))

\* A try block whose handler returns what the loop had collected.
detection_partial(model, text, labels, demo, failed) ==
  IF model = None
  THEN {[result |-> demo, invoked |-> "demo", entities |-> <<>>, raised |-> ""]}
  ELSE {[result |-> collapse(p.entities, <<>>),
         invoked |-> "oracle", entities |-> p.entities, raised |-> p.error] :
        p \in predict_entities(text, labels)}

\* The try block both detections share: the outcomes [result, invoked,
\* entities, raised], invoked telling what produced the result, entities
\* being what the loop took from predict_entities, and raised the message of
\* the exception the handler caught ("" when none was raised).
detection(model, text, labels, demo, failed) ==
  IF model = None
  THEN {[result |-> demo, invoked |-> "demo", entities |-> <<>>, raised |-> ""]}
  ELSE {[result |-> IF p.ok THEN collapse(p.entities, <<>>)
                    ELSE <<scalar("error", failed \o p.error)>>,
         invoked |-> "oracle", entities |-> p.entities, raised |-> p.error] :
        p \in predict_entities(text, labels)}

extract_pii_from_text(model, text) ==
  detection(model, text, pii_labels,
            <<scalar("Patient Name", "John Doe"),
              scalar("phone number", "+91-9876543210"),
              scalar("email", "john.doe@example.com")>>,
            "PII Detection failed: ")

extract_phi_from_text(model, text) ==
  detection(model, text, phi_labels,
            <<scalar("medical condition", "Hypertension"),
              scalar("medication", "Lisinopril 10mg"),
              scalar("Age", "45")>>,
            "PHI Detection failed: ")

extract_pii_from_file(model, f) ==
  LET text == extract_text(f)
  IN  IF startswith(text, "Error:")
      THEN {[result |-> <<scalar("error", text)>>, invoked |-> "none",
             entities |-> <<>>, raised |-> ""]}
      ELSE extract_pii_from_text(model, text)

extract_phi_from_file(model, f) ==
  LET text == extract_text(f)
  IN  IF startswith(text, "Error:")
      THEN {[result |-> <<scalar("error", text)>>, invoked |-> "none",
             entities |-> <<>>, raised |-> ""]}
      ELSE detection(model, text, phi_labels,
                     <<scalar("medical condition", "Hypertension"),
                       scalar("medication", "Lisinopril 10mg"),
                       scalar("blood pressure", "140/90 mmHg")>>,
                     "PHI Detection failed: ")

\* result.get("error") is truthy
has_error(result) ==
  get(result, "error") # None /\ get(result, "error")[1].values # <<"">>

(***************************************************************************)
(* app.py: the parts of process_files that are functions                   *)
(***************************************************************************)
\* s.strip(cs)
RECURSIVE strip_chars(_, _)
strip_chars(s, cs) ==
  IF s = "" THEN ""
  ELSE IF contains(cs, char(s, 1)) THEN strip_chars(Tail(s), cs)
  ELSE IF contains(cs, char(s, Len(s)))
  THEN strip_chars(SubSeq(s, 1, Len(s) - 1), cs)
  ELSE s

\* werkzeug's secure_filename on an ASCII name: separators to blanks, blank
\* runs to "_", everything outside [A-Za-z0-9_.-] dropped, "." and "_"
\* stripped from both ends.
secure_filename(filename) ==
  strip_chars(
    re_sub_not("ABCDEFGHIJKLMNOPQRSTUVWXYZabcdefghijklmnopqrstuvwxyz0123456789_.-",
               "", join("_", split(replace(filename, "/", " ")))),
    "._")

\* tempfile.mkstemp(suffix=os.path.splitext(filename)[1]), then
\* file.save(temp_path): the upload under one of the names mkstemp makes
saved(file, filename) ==
  [file EXCEPT !.path = "/tmp/tmpk3x9qz1a" \o splitext(filename)]

\* The random draws of the fallback sample data, sampled together: every
\* draw the least of its range (the first of its choices), or every draw the
\* greatest (the last).
sample_draws ==
  { [n3 |-> "100", n4 |-> "1000", n5 |-> "10000", n7 |-> "1000000",
     n8 |-> "10000000", day |-> "1", month |-> "Jan", year |-> "1970",
     insurance |-> "Health Insurance Corp", condition |-> "Hypertension",
     age |-> "25", gender |-> "Male", medication |-> "Lisinopril",
     allergy |-> "Penicillin", blood |-> "A+", surgery |-> "Appendectomy",
     symptom |-> "Headache"],
    [n3 |-> "999", n4 |-> "9999", n5 |-> "99999", n7 |-> "9999999",
     n8 |-> "99999999", day |-> "28", month |-> "Jun", year |-> "2000",
     insurance |-> "Wellness Insurance", condition |-> "Arthritis",
     age |-> "80", gender |-> "Female", medication |-> "Ibuprofen",
     allergy |-> "No known allergies", blood |-> "AB-",
     surgery |-> "Knee replacement", symptom |-> "Joint pain"] }

\* fake_pii and real_phi when PII_DETECTION_AVAILABLE is False
sample_data ==
  { [fake_pii |->
       <<scalar("Patient Name", "Patient_" \o d.n4),
         scalar("phone number", "+1-555-" \o d.n4),
         scalar("email", "patient" \o d.n3 \o "@example.com"),
         scalar("Address", d.n3 \o " Main St, City, State " \o d.n5),
         scalar("Hospital ID", "HOSP-" \o d.n7),
         scalar("Policy Number", "POL-" \o d.n8),
         scalar("date of birth", d.day \o " " \o d.month \o " " \o d.year),
         scalar("health insurance", d.insurance)>>,
     real_phi |->
       <<scalar("medical condition", d.condition),
         scalar("Age", d.age),
         scalar("gender", d.gender),
         scalar("medication", d.medication),
         scalar("allergy", d.allergy),
         scalar("blood group", d.blood),
         scalar("surgery", d.surgery),
         scalar("symptom", d.symptom)>>] : d \in sample_draws }

\* m.get(label, default) of a record that ignores the replaced mapping.
cell_default(m, label, default) == [list |-> FALSE, values |-> <<default>>]

\* m.get(label, default); a cell of a row is [list, values] as in a mapping
cell(m, label, default) ==
  IF get(m, label) = None THEN [list |-> FALSE, values |-> <<default>>]
  ELSE [list |-> get(m, label)[1].list, values |-> get(m, label)[1].values]

\* file_data: one row per file
file_data(filename, fake_pii, real_phi) ==
  { [filename |-> filename,
     Hospital_ID |-> cell(fake_pii, "Hospital ID", "HOSP-" \o h),
     Patient_Name |-> cell(fake_pii, "Patient Name", "John Doe"),
     Policy_Number |-> cell(fake_pii, "Policy Number", "POL-" \o p),
     date_of_birth |-> cell(fake_pii, "date of birth", "15 March 1990"),
     email |-> cell(fake_pii, "email", "patient@example.com"),
     health_insurance |-> cell(fake_pii, "health insurance",
                               "Health Insurance Corp"),
     phone_number |-> cell(fake_pii, "phone number", "+91-9876543210"),
     Age |-> cell(real_phi, "Age", "35"),
     allergy |-> cell(real_phi, "allergy", "No known allergies"),
     blood_group |-> cell(real_phi, "blood group", "O+"),
     drug |-> cell(real_phi, "medication", "No medications"),
     gender |-> cell(real_phi, "gender", "Male"),
     medical_condition |-> cell(real_phi, "medical condition", "No conditions"),
     surgery |-> cell(real_phi, "surgery", "No surgeries"),
     symptom |-> cell(real_phi, "symptom", "No symptoms")] :
    h \in randint("1000000", "9999999"), p \in randint("10000000", "99999999") }

(***************************************************************************)
(* State                                                                   *)
(***************************************************************************)
VARIABLES
  replacement_cache,      \* faker.replacement_cache
  current_patient_name,   \* faker.current_patient_name
  model,                  \* detector.model: GLiNER, or None
  PII_DETECTION_AVAILABLE,
  excel_data,             \* the workbooks process_files appends to
  pc,                     \* per thread: where it stands
  files,                  \* per thread: the files still to be processed
  cur,                    \* per thread: the file in work and what was found in it
  pii_phi_rows,           \* per thread: the rows of its request
  processed_files,        \* per thread: the summaries of its request
  req,                    \* per thread: the number of its request
  pii_json,               \* per thread: the argument of replace_pii_json
  fake_json,              \* per thread: its local fake_json
  acc,                    \* per thread: the list comprehension's partial result
  pos,                    \* per thread: the next step of replace_pii_json
  log,                    \* per thread: the generate_fake_value calls of its pass
  first_value,            \* (label, original) -> the value first returned for it
  cache_src,              \* cache key -> the request that stored it
  anchor_src,             \* the request that last assigned the name anchor
  ops                     \* operations started

vars == <<replacement_cache, current_patient_name, model,
          PII_DETECTION_AVAILABLE, excel_data, pc, files, cur, pii_phi_rows,
          processed_files, req, pii_json, fake_json, acc, pos, log,
          first_value, cache_src, anchor_src, ops>>

\* What only app.py and the detector touch.
app_vars == <<model, PII_DETECTION_AVAILABLE, excel_data, files, cur,
              pii_phi_rows, processed_files, req>>

Threads == {1, 2}

MaxOps == 2

MaxFiles == 2

MaxSubmissions == 1

MaxRequests == 2

MaxPages == 7

MaxMembers == 12

\* The first returned value of every pair called so far, c included.
noted(fv, c) ==
  IF <<c.label, c.original>> \in DOMAIN fv THEN fv
  ELSE (<<c.label, c.original>> :> c.value) @@ fv

\* One generate_fake_value call by thread t on the shared generator, noted
\* after the calls `before`: what it returned, for which request, and the
\* requests whose stores it read (a cache hit reads the entry, the email
\* branch reads the name anchor).
call(t, label, original_value, r, before) ==
  LET key == cache_key(label, original_value)
      c == [label |-> label, original |-> original_value,
            value |-> r.value, rule |-> r.rule,
            by |-> req[t],
            read |-> IF r.rule = "cache" THEN {cache_src[key]}
                     ELSE IF r.rule = "email" THEN {anchor_src}
                     ELSE {}]
  IN  /\ replacement_cache' = r.cache
      /\ current_patient_name' = r.anchor
      /\ cache_src' = IF r.rule = "cache" THEN cache_src
                      ELSE (key :> req[t]) @@ cache_src
      /\ anchor_src' = IF r.rule # "cache" /\ is_patient_name(label)
                       THEN req[t] ELSE anchor_src
      /\ log' = [log EXCEPT ![t] = Append(before, c)]
      /\ first_value' = noted(first_value, c)

\* The mappings and the single calls handed to the generator.
Mappings ==
  { <<scalar("Patient Name", "Mr. Ravi Kumar"), scalar("email", "rk@mail.in")>>,
    <<scalar("Patient Name", "Sita Rao"), scalar("email", "rk@mail.in")>>,
    <<scalar("email", "rk@mail.in"), scalar("Hospital ID", "HOSP1234567")>>,
    <<scalar("email", "sr@mail.in"), scalar("Patient Name", "Sita Rao")>> }

CallInputs ==
  { <<"Patient Name", "Sita Rao">>,
    <<"email", "rk@mail.in">> }

\* SimplePIIFaker()
InitFaker ==
  /\ replacement_cache = <<>>
  /\ current_patient_name = None
  /\ first_value = <<>>
  /\ cache_src = <<>>
  /\ anchor_src = 0
  /\ ops = 0

InitThreads ==
  /\ pc = [t \in Threads |-> "idle"]
  /\ files = [t \in Threads |-> <<>>]
  /\ cur = [t \in Threads |-> None]
  /\ pii_phi_rows = [t \in Threads |-> <<>>]
  /\ processed_files = [t \in Threads |-> <<>>]
  /\ req = [t \in Threads |-> 0]
  /\ pii_json = [t \in Threads |-> <<>>]
  /\ fake_json = [t \in Threads |-> <<>>]
  /\ acc = [t \in Threads |-> <<>>]
  /\ pos = [t \in Threads |-> 0]
  /\ log = [t \in Threads |-> <<>>]

\* replacer.py used by itself: no detector, no orchestrator.
NoApp ==
  /\ model = None
  /\ PII_DETECTION_AVAILABLE = FALSE
  /\ excel_data = [redactions_log |-> <<>>, processing_sessions |-> <<>>,
                   processed_data |-> <<>>]

Init == InitFaker /\ InitThreads /\ NoApp

\* faker.generate_fake_value(label, original_value), called directly
generate(t) ==
  /\ pc[t] = "idle" /\ ops < MaxOps
  /\ ops' = ops + 1
  /\ \E in \in CallInputs :
       \E r \in generate_fake_value(replacement_cache, current_patient_name,
                                    in[1], in[2]) :
         call(t, in[1], in[2], r, <<>>)
  /\ UNCHANGED <<pc, pii_json, fake_json, acc, pos>>
  /\ UNCHANGED app_vars

\* faker.replace_pii_json(m) is entered
replace_pii_json(t) ==
  /\ pc[t] = "idle" /\ ops < MaxOps
  /\ ops' = ops + 1
  /\ \E m \in Mappings : pii_json' = [pii_json EXCEPT ![t] = m]
  /\ pc' = [pc EXCEPT ![t] = "reset"]
  /\ UNCHANGED <<replacement_cache, current_patient_name, fake_json, acc, pos,
                 log, first_value, cache_src, anchor_src>>
  /\ UNCHANGED app_vars

\* self.current_patient_name = None; fake_json = {}
reset(t) ==
  /\ pc[t] = "reset"
  /\ current_patient_name' = None
  /\ anchor_src' = req[t]
  /\ fake_json' = [fake_json EXCEPT ![t] = <<>>]
  /\ acc' = [acc EXCEPT ![t] = <<>>]
  /\ pos' = [pos EXCEPT ![t] = 1]
  /\ log' = [log EXCEPT ![t] = <<>>]
  /\ pc' = [pc EXCEPT ![t] =
             IF replace_pii_json_steps(pii_json[t]) = <<>> THEN "done" ELSE "run"]
  /\ UNCHANGED <<replacement_cache, pii_json, first_value, cache_src, ops>>
  /\ UNCHANGED app_vars

\* The next statement of the two loops of replace_pii_json.
step(t) ==
  /\ pc[t] = "run"
  /\ LET steps == replace_pii_json_steps(pii_json[t])
         s == steps[pos[t]]
         e == pii_json[t][s.k]
     IN  /\ pos' = [pos EXCEPT ![t] = @ + 1]
         /\ pc' = [pc EXCEPT ![t] = IF pos[t] = Len(steps) THEN "done" ELSE "run"]
         /\ CASE s.kind = "call" ->
                   \E r \in generate_fake_value(replacement_cache,
                              current_patient_name, e.label, e.values[s.j]) :
                     /\ call(t, e.label, e.values[s.j], r, log[t])
                     /\ IF s.j = Len(e.values)
                        THEN /\ fake_json' = [fake_json EXCEPT ![t] =
                                    put(@, [e EXCEPT !.values =
                                              Append(acc[t], r.value)])]
                             /\ acc' = [acc EXCEPT ![t] = <<>>]
                        ELSE /\ acc' = [acc EXCEPT ![t] = Append(@, r.value)]
                             /\ UNCHANGED fake_json
              [] s.kind = "empty" ->
                   /\ fake_json' = [fake_json EXCEPT ![t] = put(@, e)]
                   /\ UNCHANGED <<replacement_cache, current_patient_name, acc,
                                  log, first_value, cache_src, anchor_src>>
              [] s.kind = "anchor" ->
                   /\ LET v == get(fake_json[t], e.label)[1].values
                      IN  /\ current_patient_name' =
                               IF v # <<>> THEN <<v[1]>> ELSE current_patient_name
                          /\ anchor_src' = IF v # <<>> THEN req[t] ELSE anchor_src
                   /\ UNCHANGED <<replacement_cache, fake_json, acc, log,
                                  first_value, cache_src>>
  /\ UNCHANGED <<pii_json, ops>>
  /\ UNCHANGED app_vars

\* return fake_json, to a caller that is not process_files
return(t) ==
  /\ pc[t] = "done" /\ cur[t] = None
  /\ pc' = [pc EXCEPT ![t] = "idle"]
  /\ UNCHANGED <<replacement_cache, current_patient_name, pii_json, fake_json,
                 acc, pos, log, first_value, cache_src, anchor_src, ops>>
  /\ UNCHANGED app_vars

\* One caller using one generator: calls and passes one after the other.
Next ==
  \/ generate(1)
  \/ replace_pii_json(1)
  \/ reset(1)
  \/ step(1)
  \/ return(1)

Spec == Init /\ [][Next]_vars


(***************************************************************************)
(* A fresh generator for one mapping, as process() of replacer.py makes    *)
(* it: SimplePIIFaker() and then replace_pii_json.                         *)
(***************************************************************************)
NameOriginals ==
  {"Mr. Ravi Kumar", "Mrs. Sita Rao", "Ms. Uma Das", "Dr. Amrita Sen",
   "Dr. Anil Rao", "Smt Gita Rao", "Shri Om Jain", "Sita Rao"}

IdentifierLabels ==
  {"Hospital ID", "Patient ID", "Medical Record Number", "MRN",
   "Insurance ID", "Policy Number", "Member ID", "Subscriber ID",
   "Provider ID", "NPI Number", "Medical License", "License Number",
   "DEA Number"}

\* pii_json.items() in every insertion order the entries can have.
orderings(m) ==
  {[k \in 1..Len(m) |-> m[p[k]]] :
     p \in {q \in [1..Len(m) -> 1..Len(m)] :
              \A i, j \in 1..Len(m) : q[i] = q[j] => i = j}}

\* Mappings of several labels: a list with a repeated original, an empty
\* list, two labels that are both patient names, a patient name that is a
\* list of two, and one that is a list with a repeated original.
MixedMappings ==
  orderings(<<many("email", <<"rk@mail.in", "rk@mail.in">>),
              scalar("Patient Name", "Sita Rao"),
              many("Address", <<>>)>>)
    \cup orderings(<<scalar("Patient Name", "Sita Rao"),
                     scalar("email", "sr@mail.in"),
                     many("name", <<"Mr. Ravi Kumar">>)>>)
    \cup {<<many("Patient Name", <<"Sita Rao", "Mr. Ravi Kumar">>),
             scalar("email", "sr@mail.in")>>,
           <<many("Patient Name", <<"Mr. Ravi Kumar", "Sita Rao", "Mr. Ravi Kumar">>),
             scalar("email", "rk@mail.in")>>}

\* Labels that no label test of generate_fake_value matches, with values
\* of several kinds.
UnmatchedMappings ==
  { <<scalar("Some Label", "anything at all")>>,
    <<scalar("password", "hunter2"), scalar("nurse", "Asha")>>,
    <<scalar("medical facility", "City General Hospital")>>,
    <<many("ip/v4 host", <<"10.0.0.7", "10.0.0.8">>)>> }

\* Two entries whose labels and values differ and contain ':'.
ColonMappings ==
  orderings(<<scalar("email:name", "rk@mail.in"),
              scalar("email", "name:rk@mail.in")>>)
    \cup {<<scalar("Patient ID", "ward:7"), scalar("Patient ID:ward", "8")>>}

FreshMappings ==
  {<<scalar(l, o)>> : l \in {"Patient Name", "Emergency Name"},
                      o \in NameOriginals}
    \cup {<<many(l, <<"A-100", "B-200">>)>> : l \in IdentifierLabels}
    \cup MixedMappings
    \cup UnmatchedMappings
    \cup ColonMappings
    \cup orderings(<<scalar("Patient Name", "Mr. Ravi Kumar"),
                     scalar("Hospital ID", "HOSP1234567")>>)

InitFresh ==
  /\ InitFaker
  /\ NoApp
  /\ \E m \in FreshMappings :
       /\ pc = [t \in Threads |-> IF t = 1 THEN "reset" ELSE "idle"]
       /\ pii_json = [t \in Threads |-> IF t = 1 THEN m ELSE <<>>]
  /\ files = [t \in Threads |-> <<>>]
  /\ cur = [t \in Threads |-> None]
  /\ pii_phi_rows = [t \in Threads |-> <<>>]
  /\ processed_files = [t \in Threads |-> <<>>]
  /\ req = [t \in Threads |-> 0]
  /\ fake_json = [t \in Threads |-> <<>>]
  /\ acc = [t \in Threads |-> <<>>]
  /\ pos = [t \in Threads |-> 0]
  /\ log = [t \in Threads |-> <<>>]

NextFresh == reset(1) \/ step(1) \/ return(1)

SpecFresh == InitFresh /\ [][NextFresh]_vars

(***************************************************************************)
(* The files handed to the detector and to process_files.                  *)
(***************************************************************************)
ravi_docx ==
  word("ravi.docx", "",
       <<"Patient Name: Mr. Ravi Kumar", "Email: rk@mail.in">>, <<>>, <<>>)

sita_docx ==
  word("sita chart.docx", "", <<"Sita Rao", " ">>,
       <<<<"Email", " sr@mail.in ">>>>, <<>>)

rx_csv ==
  excel("rx.csv", "",
        <<[name |-> "", columns |-> <<"item", "dose">>,
           rows |-> <<<<"Aspirin", "75 mg">>, <<"Metformin", "">>>>]>>)

scan_png == image("scan.PNG", "cannot identify image file", <<>>)

notes_txt == other("notes.txt", TRUE)

\* A document that names three patients, two email addresses and two drugs.
ward_docx ==
  word("ward.docx", "",
       <<"Mr. Ravi Kumar", "Sita Rao", "rk@mail.in", "Uma Das, sr@mail.in">>,
       <<<<"Aspirin", "Metformin">>>>, <<>>)

\* A Word document of two sections, each with a header and a footer of its
\* own, after two body paragraphs and one table row.
annual_docx ==
  word("annual.docx", "",
       <<"Annual review", " ", "Sita Rao">>, <<<<"BP", "140/90">>>>,
       <<[header |-> <<"City Clinic">>, footer |-> <<"Page 1", "">>],
         [header |-> <<"Annex A">>, footer |-> <<"Page 2">>]>>)

\* A file that exists and that the library of its format cannot read.
unreadable_file(path) == [path |-> path, exists |-> TRUE, fault |-> "unreadable"]

\* The OCR attempts on the images of n pages: page i reads as "scan i".
RECURSIVE scans(_)
scans(n) ==
  IF n = 0 THEN <<>>
  ELSE Append(scans(n - 1), <<raised, read(" scan " \o ToString(n) \o "\n")>>)

\* PDFs of one to seven pages: without a text layer, or with one on the
\* second page only.
ScannedPDFs ==
  {pdf("scan" \o ToString(n) \o ".pdf", "", [i \in 1..n |-> " "], "", scans(n)) :
     n \in 1..MaxPages}
    \cup {pdf("text" \o ToString(n) \o ".pdf", "",
               [i \in 1..n |-> IF i = 2 THEN " layer 2\n" ELSE ""], "", scans(n)) :
           n \in 2..MaxPages}

\* An archive of n one-line documents behind an inner archive and a text
\* file.
packed(n) ==
  zip("pack" \o ToString(n) \o ".zip", "",
      <<zip("inner.ZIP", "",
            <<word("inner.docx", "", <<"inner memo">>, <<>>, <<>>)>>),
        notes_txt>>
        \o [i \in 1..n |->
              word("memo" \o ToString(i) \o ".docx", "",
                   <<"memo " \o ToString(i)>>, <<>>, <<>>)])

Archives == {packed(n) : n \in (MaxMembers - 3)..MaxMembers}

\* One such file for every supported extension, in lower, upper or mixed
\* case, and files whose names end otherwise.
Probes ==
  {unreadable_file(p) :
     p \in {"a.png", "b.JPG", "c.jpeg", "d.bmp", "e.Tiff", "f.gif", "g.PDF",
            "h.docx", "i.doc", "j.xlsx", "k.XLS", "l.csv", "m.Zip",
            "README", ".png", "o.tar.gz", "p.png.bak", "dir.pdf/q", "r.pdf.",
            "s.docm"}}

\* Every way extract_text ends, by format.
ScriptFiles ==
  Probes \cup ScannedPDFs \cup Archives \cup
  { other("sample.pdf", FALSE),
    notes_txt,
    ravi_docx,
    sita_docx,
    rx_csv,
    scan_png,
    ward_docx,
    image("photo.jpg", "", <<raised, read(" Sita Rao \n\n sr@mail.in "), raised>>),
    image("blank.png", "", <<read(" \n"), raised, raised>>),
    pdf("report.pdf", "", <<" ", "Mr. Ravi Kumar takes Aspirin">>, "", <<>>),
    pdf("fax.pdf", "", <<"", "">>, "",
        <<<<raised, read("Aspirin")>>, <<read(" "), raised>>>>),
    pdf("fax2.pdf", "", <<"">>, "Unable to get page count. Is poppler installed?",
        <<>>),
    pdf("broken.pdf", "cannot open broken document", <<>>, "", <<>>),
    word("old.doc", "file 'old.doc' is not a Word file", <<>>, <<>>, <<>>),
    excel("book.xlsx", "File is not a zip file", <<>>),
    zip("bundle.zip", "File is not a zip file", <<>>),
    zip("charts.zip", "", <<notes_txt, ravi_docx, scan_png,
                            zip("inner.zip", "", <<>>)>>),
    zip("empty.zip", "", <<notes_txt>>),
    annual_docx,
    image("dark.png", "", <<raised, raised, raised>>),
    pdf("dark.pdf", "", <<" ", "">>, "", <<<<raised, raised>>, <<raised, raised>>>>),
    zip("blank.zip", "",
        <<image("blank.png", "", <<read(" \n"), raised, raised>>),
          word("torn.docx", "Package not found", <<>>, <<>>, <<>>)>>) }

\* extract_text(f) ended in a failure: the file is missing, its format is
\* not supported, or the strategy of its format caught an exception.
extraction_failed(f) ==
  LET e == file_ext(f.path)
  IN  \/ ~f.exists
      \/ e \notin UNION {supported_formats[k] : k \in DOMAIN supported_formats}
      \/ f.fault # ""
      \/ /\ e \in supported_formats.pdfs
         /\ non_blank(f.pages, TRUE) = <<>>
         /\ f.raster_fault # ""

(***************************************************************************)
(* pii_detector.py run as a script: a detector is made, then the PII and   *)
(* the PHI of FILE_TO_PROCESS are extracted.                               *)
(***************************************************************************)
InitDetector ==
  /\ InitFaker
  /\ model \in {GLiNER, None}
  /\ PII_DETECTION_AVAILABLE = FALSE
  /\ excel_data = [redactions_log |-> <<>>, processing_sessions |-> <<>>,
                   processed_data |-> <<>>]
  /\ pc = [t \in Threads |-> IF t = 1 THEN "pii" ELSE "idle"]
  /\ \E f \in ScriptFiles : files = [t \in Threads |-> IF t = 1 THEN <<f>> ELSE <<>>]
  /\ cur = [t \in Threads |-> None]
  /\ pii_phi_rows = [t \in Threads |-> <<>>]
  /\ processed_files = [t \in Threads |-> <<>>]
  /\ req = [t \in Threads |-> 0]
  /\ pii_json = [t \in Threads |-> <<>>]
  /\ fake_json = [t \in Threads |-> <<>>]
  /\ acc = [t \in Threads |-> <<>>]
  /\ pos = [t \in Threads |-> 0]
  /\ log = [t \in Threads |-> <<>>]

\* What is known of a file in work.
found(file, filename, text, temp_dirs, pii, phi) ==
  <<[file |-> file, filename |-> filename, text |-> text,
     temp_dirs |-> temp_dirs,
     pii_results |-> pii.result, pii_invoked |-> pii.invoked,
     pii_entities |-> pii.entities, pii_raised |-> pii.raised,
     phi_results |-> phi.result, phi_invoked |-> phi.invoked,
     phi_entities |-> phi.entities, phi_raised |-> phi.raised]>>

\* Not run (yet).
pending ==
  [result |-> <<>>, invoked |-> "pending", entities |-> <<>>, raised |-> ""]

\* pii_result = detector.extract_pii_from_file(FILE_TO_PROCESS, CONFIDENCE)
pii_detection(t) ==
  /\ pc[t] = "pii"
  /\ LET file == Head(files[t])
     IN  \E pii \in extract_pii_from_file(model, file) :
           cur' = [cur EXCEPT ![t] =
                     found(file, file.path, extract_text(file),
                           extract_text_dirs(file), pii, pending)]
  /\ pc' = [pc EXCEPT ![t] = "phi"]
  /\ UNCHANGED <<replacement_cache, current_patient_name, model,
                 PII_DETECTION_AVAILABLE, excel_data, files, pii_phi_rows,
                 processed_files, req, pii_json, fake_json, acc, pos, log,
                 first_value, cache_src, anchor_src, ops>>

\* phi_result = detector.extract_phi_from_file(FILE_TO_PROCESS, CONFIDENCE)
phi_detection(t) ==
  /\ pc[t] = "phi"
  /\ \E phi \in extract_phi_from_file(model, Head(files[t])) :
       cur' = [cur EXCEPT ![t] =
                 <<[@[1] EXCEPT !.phi_results = phi.result,
                                !.phi_invoked = phi.invoked,
                                !.phi_entities = phi.entities,
                                !.phi_raised = phi.raised]>>]
  /\ files' = [files EXCEPT ![t] = Tail(@)]
  /\ pc' = [pc EXCEPT ![t] = "idle"]
  /\ UNCHANGED <<replacement_cache, current_patient_name, model,
                 PII_DETECTION_AVAILABLE, excel_data, pii_phi_rows,
                 processed_files, req, pii_json, fake_json, acc, pos, log,
                 first_value, cache_src, anchor_src, ops>>

NextDetector == pii_detection(1) \/ phi_detection(1)

SpecDetector == InitDetector /\ [][NextDetector]_vars

(***************************************************************************)
(* app.py: start-up and process_files                                      *)
(***************************************************************************)
\* The ways start-up ends: the imports fail; a constructor raises; the model
\* fails to load, which CleanPIIDetector() swallows; everything loads.
Startups ==
  { [available |-> FALSE, model |-> None],
    [available |-> TRUE, model |-> None],
    [available |-> TRUE, model |-> GLiNER] }

InitApp ==
  /\ InitFaker
  /\ InitThreads
  /\ \E s \in Startups :
       /\ PII_DETECTION_AVAILABLE = s.available
       /\ model = s.model
  /\ excel_data = [redactions_log |-> <<>>, processing_sessions |-> <<>>,
                   processed_data |-> <<>>]

\* process_files is entered with request.files: 400 when there are none
process_files(t, uploaded) ==
  /\ pc[t] = "idle"
  /\ ops' = ops + 1
  /\ IF uploaded = <<>>
     THEN UNCHANGED <<pc, files, req, cur, pii_phi_rows, processed_files>>
     ELSE /\ pc' = [pc EXCEPT ![t] = "file"]
          /\ files' = [files EXCEPT ![t] = uploaded]
          /\ req' = [req EXCEPT ![t] = ops + 1]
          /\ cur' = [cur EXCEPT ![t] = None]
          /\ pii_phi_rows' = [pii_phi_rows EXCEPT ![t] = <<>>]
          /\ processed_files' = [processed_files EXCEPT ![t] = <<>>]
  /\ UNCHANGED <<replacement_cache, current_patient_name, model,
                 PII_DETECTION_AVAILABLE, excel_data, pii_json, fake_json, acc,
                 pos, log, first_value, cache_src, anchor_src>>

\* The next file of the loop, up to the call of replace_pii_json: a file
\* without a name is passed over; with the detector, PII and PHI are
\* extracted from the saved upload; without it, sample data is drawn.
process_file(t) ==
  /\ pc[t] = "file" /\ files[t] # <<>>
  /\ files' = [files EXCEPT ![t] = Tail(@)]
  /\ LET file == Head(files[t])
         filename == secure_filename(file.path)
         temp == saved(file, filename)
     IN  IF file.path = ""
         THEN UNCHANGED <<pc, cur, pii_json, fake_json>>
         ELSE IF PII_DETECTION_AVAILABLE
         THEN \E pii \in extract_pii_from_file(model, temp) :
              \E phi \in extract_phi_from_file(model, temp) :
                /\ cur' = [cur EXCEPT ![t] =
                             found(temp, filename, extract_text(temp),
                                   extract_text_dirs(temp), pii, phi)]
                /\ IF ~has_error(pii.result)
                   THEN /\ pii_json' = [pii_json EXCEPT ![t] = pii.result]
                        /\ pc' = [pc EXCEPT ![t] = "reset"]
                        /\ UNCHANGED fake_json
                   ELSE /\ fake_json' = [fake_json EXCEPT ![t] = <<>>]
                        /\ pc' = [pc EXCEPT ![t] = "done"]
                        /\ UNCHANGED pii_json
         ELSE \E s \in sample_data :
                /\ cur' = [cur EXCEPT ![t] =
                             found(temp, filename, "", {}, pending,
                                   [result |-> s.real_phi, invoked |-> "sample",
                                    entities |-> <<>>, raised |-> ""])]
                /\ fake_json' = [fake_json EXCEPT ![t] = s.fake_pii]
                /\ pc' = [pc EXCEPT ![t] = "done"]
                /\ UNCHANGED pii_json
  /\ UNCHANGED <<replacement_cache, current_patient_name, model,
                 PII_DETECTION_AVAILABLE, excel_data, pii_phi_rows,
                 processed_files, req, acc, pos, log, first_value, cache_src,
                 anchor_src, ops>>

\* A real_phi that is emptied by an error of either detection.
real_phi_coupled(t) ==
  IF has_error(cur[t][1].phi_results) \/ has_error(cur[t][1].pii_results)
  THEN <<>> ELSE cur[t][1].phi_results

\* real_phi of the file in work
real_phi(t) ==
  IF has_error(cur[t][1].phi_results) THEN <<>> ELSE cur[t][1].phi_results

\* The rest of the loop body: the counts, file_data and the summary.
assemble(t) ==
  /\ pc[t] = "done" /\ cur[t] # None
  /\ \E row \in file_data(cur[t][1].filename, fake_json[t], real_phi(t)) :
       pii_phi_rows' = [pii_phi_rows EXCEPT ![t] = Append(@, row)]
  /\ processed_files' = [processed_files EXCEPT ![t] =
       Append(@, [filename |-> cur[t][1].filename,
                  pii_items |-> Len(fake_json[t]),
                  phi_items |-> Len(real_phi(t)),
                  status |-> "completed"])]
  /\ pc' = [pc EXCEPT ![t] = "file"]
  /\ UNCHANGED <<replacement_cache, current_patient_name, model,
                 PII_DETECTION_AVAILABLE, excel_data, files, cur, req, pii_json,
                 fake_json, acc, pos, log, first_value, cache_src, anchor_src,
                 ops>>

RECURSIVE sum(_, _)
sum(rows, field) ==
  IF rows = <<>> THEN 0 ELSE rows[1][field] + sum(Tail(rows), field)

\* After the loop: the workbooks are appended to and the response is sent.
respond(t) ==
  /\ pc[t] = "file" /\ files[t] = <<>>
  /\ excel_data' =
       [redactions_log |->
          excel_data.redactions_log
            \o [i \in 1..Len(pii_phi_rows[t]) |->
                  [session_id |-> req[t], row |-> pii_phi_rows[t][i]]],
        processing_sessions |->
          Append(excel_data.processing_sessions,
                 [id |-> req[t],
                  files_processed |-> Len(processed_files[t]),
                  pii_items |-> sum(processed_files[t], "pii_items"),
                  phi_items |-> sum(processed_files[t], "phi_items")]),
        processed_data |->
          excel_data.processed_data
            \o [i \in 1..Len(processed_files[t]) |->
                  [session_id |-> req[t],
                   original_filename |-> processed_files[t][i].filename,
                   file_type |-> splitext(processed_files[t][i].filename),
                   pii_count |-> processed_files[t][i].pii_items,
                   phi_count |-> processed_files[t][i].phi_items]]]
  /\ pc' = [pc EXCEPT ![t] = "idle"]
  /\ cur' = [cur EXCEPT ![t] = None]
  /\ pii_phi_rows' = [pii_phi_rows EXCEPT ![t] = <<>>]
  /\ processed_files' = [processed_files EXCEPT ![t] = <<>>]
  /\ pii_json' = [pii_json EXCEPT ![t] = <<>>]
  /\ fake_json' = [fake_json EXCEPT ![t] = <<>>]
  /\ UNCHANGED <<replacement_cache, current_patient_name, model,
                 PII_DETECTION_AVAILABLE, files, req, acc, pos, log,
                 first_value, cache_src, anchor_src, ops>>

\* The steps of a request between its entry and its response.
request_step(t) ==
  \/ process_file(t)
  \/ reset(t)
  \/ step(t)
  \/ assemble(t)
  \/ respond(t)

\* What is uploaded in one submission.
RECURSIVE lists(_, _)
lists(S, n) ==
  IF n = 0 THEN {<<>>}
  ELSE lists(S, n - 1) \cup {Append(l, x) : l \in lists(S, n - 1), x \in S}

Submissions ==
  lists({ravi_docx, rx_csv, scan_png}, MaxFiles)
    \cup {<<notes_txt>>, <<other("", TRUE), sita_docx>>}

\* One submission at a time.
NextFiles ==
  \/ \E uploaded \in Submissions :
       ops < MaxSubmissions /\ process_files(1, uploaded)
  \/ request_step(1)

SpecFiles == InitApp /\ [][NextFiles]_vars

\* Requests served by threads of one process whose model did not load, each
\* uploading one document: detection gives the demonstration mapping, or
\* sample data is drawn when the detector is not available at all.
InitRequests == InitApp /\ model = None

Uploads == {<<sita_docx>>}

NextRequests ==
  \E t \in Threads :
    \/ \E uploaded \in Uploads :
         ops < MaxRequests /\ process_files(t, uploaded)
    \/ request_step(t)

SpecRequests == InitRequests /\ [][NextRequests]_vars

(***************************************************************************)
(* Properties                                                              *)
(***************************************************************************)
Calls(t) == {log[t][i] : i \in 1..Len(log[t])}

\* C1: every generate_fake_value(L, V) call returns the value that the first
\* call for (L, V) on this generator returned, whatever calls and passes were
\* made in between.
C1_SameValueForSamePair ==
  \A t \in Threads : \A c \in Calls(t) :
    c.value = first_value[<<c.label, c.original>>]

\* A later call for a pair already answered, served from the cache.
C1_Witness ==
  \E c \in Calls(1) :
    /\ c.rule = "cache"
    /\ ops = 2
    /\ c.value = first_value[<<c.label, c.original>>]

\* The part of an address before its first "@".
local_part(email) ==
  IF contains(email, "@")
  THEN SubSeq(email, 1,
         (CHOOSE i \in 1..Len(email) :
            char(email, i) = "@" /\ ~contains(SubSeq(email, 1, i - 1), "@")) - 1)
  ELSE email

well_formed(email) ==
  /\ contains(email, "@")
  /\ local_part(email) # ""
  /\ LET domain == SubSeq(email, Len(local_part(email)) + 2, Len(email))
     IN  ~contains(domain, "@") /\ contains(domain, ".") /\ ~contains(email, " ")

\* clean(first token) + "." + clean(last token) of a synthetic name, its
\* title "Dr." left out.
local_of_name(name) ==
  LET parts == split(replace(lower(name), "dr. ", ""))
  IN  clean_for_email(parts[1]) \o "." \o clean_for_email(parts[Len(parts)])

is_email(label) ==
  contains(lower(label), "email") /\ ~contains(lower(label), "name")

\* C2: when a pass is complete, the email of a mapping that holds a patient
\* name has the local part derived from the synthetic name of that pass, and
\* the email of a mapping without a name is a well-formed address.
C2_EmailFromNameOfPass ==
  \A t \in Threads : pc[t] = "done" =>
    LET out == fake_json[t]
        names == {k \in 1..Len(out) : is_patient_name(out[k].label)}
        emails == {k \in 1..Len(out) : is_email(out[k].label)}
    IN  \A e \in emails : \A i \in 1..Len(out[e].values) :
          /\ well_formed(out[e].values[i])
          /\ \A n \in names :
               local_part(out[e].values[i]) = local_of_name(out[n].values[1])

\* The lower-cased tokens of an original value.
tokens(original) == {split(lower(original))[i] : i \in 1..Len(split(lower(original)))}

name_like(label) == contains(lower(label), "name")

\* C7: for a name-like label the branch follows the honorific of the
\* original: a female or formal honorific gives the female branch, "Dr."
\* gives "Dr. <name>", and the male branch is taken only for a male honorific.
C7_BranchFollowsHonorific ==
  \A t \in Threads : \A c \in Calls(t) :
    (name_like(c.label) /\ c.rule # "cache") =>
      /\ (tokens(c.original) \cap {"mrs.", "ms.", "miss", "smt"} # {}
            => c.rule = "name_female")
      /\ ("dr." \in tokens(c.original)
            => c.rule = "dr_name" /\ startswith(c.value, "Dr. "))
      /\ (c.rule = "name_male"
            => tokens(c.original) \cap {"mr.", "shri", "sri"} # {})

\* The shape of a value: its letters and digits by class, the rest as is.
RECURSIVE shape(_)
shape(v) ==
  IF v = "" THEN ""
  ELSE (IF contains("0123456789", char(v, 1)) THEN "9"
        ELSE IF contains("ABCDEFGHIJKLMNOPQRSTUVWXYZ", char(v, 1)) THEN "A"
        ELSE char(v, 1)) \o shape(Tail(v))

\* C8: two values generated for one administrative-identifier label have the
\* same shape: the same number of letters and of digits at the same places.
C8_StableTemplate ==
  \A t \in Threads : \A c1, c2 \in Calls(t) :
    (c1.label = c2.label /\ c1.label \in IdentifierLabels
       /\ c1.rule # "cache" /\ c2.rule # "cache")
      => shape(c1.value) = shape(c2.value)

\* A supported file whose format strategy caught an exception.
unreadable(f) ==
  /\ extraction_failed(f) /\ f.exists
  /\ file_ext(f.path) \in UNION {supported_formats[k] : k \in DOMAIN supported_formats}

\* The row of the file in work of thread t has been appended.
assembled(t) ==
  /\ pc[t] = "file" /\ cur[t] # None
  /\ pii_phi_rows[t] # <<>>
  /\ pii_phi_rows[t][Len(pii_phi_rows[t])].filename = cur[t][1].filename

\* C3: for an unreadable file with a supported extension the extracted text
\* carries an error marker, the record of the file is emitted, and that
\* record is the one built from no PII and no PHI: no field of it holds a
\* value that detection or replacement produced.
C3_UnreadableFileRecord ==
  \A t \in Threads :
    (PII_DETECTION_AVAILABLE /\ pc[t] = "file" /\ cur[t] # None
       /\ unreadable(cur[t][1].file)) =>
      /\ contains(cur[t][1].text, "Error")
      /\ assembled(t)
      /\ pii_phi_rows[t][Len(pii_phi_rows[t])]
           \in file_data(cur[t][1].filename, <<>>, <<>>)

\* C4: every failure of extract_text gives a text that begins with "Error:".
C4_ErrorPrefix ==
  \A t \in Threads :
    (cur[t] # None /\ extraction_failed(cur[t][1].file)) =>
      startswith(cur[t][1].text, "Error:")

\* C5: when the extraction of a file failed, a detection that has run on
\* that file invoked neither the model nor the demonstration fallback and
\* returned the error mapping.
C5_NoDetectionAfterFailure ==
  \A t \in Threads :
    (cur[t] # None /\ extraction_failed(cur[t][1].file)) =>
      /\ cur[t][1].pii_invoked \in {"none", "pending"}
      /\ cur[t][1].phi_invoked \in {"none", "pending"}
      /\ cur[t][1].pii_invoked = "none" =>
           cur[t][1].pii_results = <<scalar("error", cur[t][1].text)>>
      /\ cur[t][1].phi_invoked = "none" =>
           cur[t][1].phi_results = <<scalar("error", cur[t][1].text)>>

\* C6: a generate_fake_value call made for a request reads only what that
\* request stored (cache entry or name anchor), and when the replacement
\* pass of a request is complete the email it produced has the local part of
\* the name the same pass produced.
C6_NoSharedReplacementState ==
  \A t \in Threads :
    /\ \A c \in Calls(t) : c.read \subseteq {c.by}
    /\ (pc[t] = "done" /\ cur[t] # None /\ PII_DETECTION_AVAILABLE
          /\ ~has_error(cur[t][1].pii_results)) =>
         \A e \in 1..Len(fake_json[t]) : \A n \in 1..Len(fake_json[t]) :
           (is_email(fake_json[t][e].label)
              /\ is_patient_name(fake_json[t][n].label)) =>
             local_part(fake_json[t][e].values[1])
               = local_of_name(fake_json[t][n].values[1])

\* C9: when a detection result handed to process_files is the demonstration
\* mapping, PII_DETECTION_AVAILABLE is False.
C9_DemoMeansUnavailable ==
  \A t \in Threads :
    (cur[t] # None
       /\ "demo" \in {cur[t][1].pii_invoked, cur[t][1].phi_invoked}) =>
      ~PII_DETECTION_AVAILABLE

PHIFields ==
  {"Age", "allergy", "blood_group", "drug", "gender", "medical_condition",
   "surgery", "symptom"}

\* C10: every PHI field of a row whose label PHI detection returned for the
\* file holds exactly the value detection returned for that label.
C10_PHICarried ==
  \A t \in Threads :
    (PII_DETECTION_AVAILABLE /\ assembled(t)) =>
      \A fld \in PHIFields :
        LET label == replace(fld, "_", " ")
        IN  label \in labels_of(real_phi(t)) =>
              pii_phi_rows[t][Len(pii_phi_rows[t])][fld]
                = cell(real_phi(t), label, "")

\* The PII fields of a row and the labels they are read from.
PIIFields ==
  [Hospital_ID |-> "Hospital ID", Patient_Name |-> "Patient Name",
   Policy_Number |-> "Policy Number", date_of_birth |-> "date of birth",
   email |-> "email", health_insurance |-> "health insurance",
   phone_number |-> "phone number"]

\* The row appended last by thread t.
last_row(t) == pii_phi_rows[t][Len(pii_phi_rows[t])]

\* The field holds, value by value, what generate_fake_value returned in the
\* pass of this file for the originals detected under the label.
replaced_by_generator(t, field, detected) ==
  /\ field.list = detected.list
  /\ Len(field.values) = Len(detected.values)
  /\ \A i \in 1..Len(field.values) :
       \E c \in Calls(t) :
         /\ c.label = detected.label
         /\ c.original = detected.values[i]
         /\ c.value = field.values[i]

\* C11: every PII field of an emitted row is, value by value, what the
\* replacement generator returned for the originals detected under the
\* field's label, or the field's default when nothing was replaced under that
\* label (detection error included), or the drawn sample value when the
\* modules are unavailable; it is never read from the detection result.
C11_OnlyReplacementsInRecord ==
  \A t \in Threads : assembled(t) =>
    \A fld \in DOMAIN PIIFields :
      LET label == PIIFields[fld]
          detected == get(cur[t][1].pii_results, label)
      IN  IF ~PII_DETECTION_AVAILABLE
          THEN \E s \in sample_data :
                 last_row(t)[fld].values = get(s.fake_pii, label)[1].values
          ELSE IF ~has_error(cur[t][1].pii_results) /\ detected # None
          THEN replaced_by_generator(t, last_row(t)[fld], detected[1])
          ELSE \E row \in file_data(cur[t][1].filename, <<>>, <<>>) :
                 last_row(t)[fld] = row[fld]

\* A row whose name and email were detected by the model in the document and
\* replaced.
C11_Witness ==
  /\ assembled(1) /\ PII_DETECTION_AVAILABLE /\ model # None
  /\ cur[1][1].pii_invoked = "oracle"
  /\ {"Patient Name", "email"} \subseteq labels_of(cur[1][1].pii_results)
  /\ last_row(1).Patient_Name.values[1] \in faker_name_male
  /\ last_row(1).Patient_Name.values # cur[1][1].pii_results[1].values

\* C12: when a pass is complete the output has exactly the labels of the
\* input, each once; a scalar input value has a scalar output, and a list has
\* a list of the same length whose i-th element is what the generator
\* returns for the i-th input element under that label.
C12_ShapePreserved ==
  \A t \in Threads : pc[t] = "done" =>
    /\ Len(fake_json[t]) = Len(pii_json[t])
    /\ labels_of(fake_json[t]) = labels_of(pii_json[t])
    /\ \A k \in 1..Len(pii_json[t]) :
         LET in == pii_json[t][k]
             out == get(fake_json[t], in.label)
         IN  /\ out # None
             /\ out[1].list = in.list
             /\ Len(out[1].values) = Len(in.values)
             /\ \A i \in 1..Len(in.values) :
                  /\ out[1].values[i] = first_value[<<in.label, in.values[i]>>]
                  /\ \E c \in Calls(t) :
                       /\ c.label = in.label /\ c.original = in.values[i]
                       /\ c.value = out[1].values[i]

\* A complete pass over a mapping with a scalar, a list of two and an empty
\* list.
C12_Witness ==
  /\ pc[1] = "done"
  /\ Len(pii_json[1]) = 3
  /\ get(pii_json[1], "Address") = <<many("Address", <<>>)>>
  /\ get(fake_json[1], "Address") = <<many("Address", <<>>)>>
  /\ get(fake_json[1], "email") # None
  /\ get(fake_json[1], "email")[1].list
  /\ Len(get(fake_json[1], "email")[1].values) = 2
  /\ get(fake_json[1], "Patient Name") # None
  /\ ~get(fake_json[1], "Patient Name")[1].list

\* C13: in the calls of a pass, every call for a patient-name label comes
\* before every call for any other label: no label that is not a patient
\* name (an email in particular) is replaced while a patient name of the
\* mapping is still to be replaced.
C13_PatientNamesFirst ==
  \A t \in Threads :
    \A i, j \in 1..Len(log[t]) :
      (i < j /\ is_patient_name(log[t][j].label))
        => is_patient_name(log[t][i].label)

\* [e['text'] for e in entities if e['label'] == label]
texts_of(entities, label) ==
  LET es == SelectSeq(entities, LAMBDA e : e.label = label)
  IN  [i \in 1..Len(es) |-> es[i].text]

\* The mapping holds, for each label of the entities and no other, once,
\* the texts of its entities in order: a scalar for one, a list for more.
adapted(entities, simple) ==
  /\ labels_of(simple) = {entities[i].label : i \in 1..Len(entities)}
  /\ Len(simple) = Cardinality(labels_of(simple))
  /\ \A k \in 1..Len(simple) :
       /\ simple[k].values = texts_of(entities, simple[k].label)
       /\ simple[k].list = (Len(simple[k].values) >= 2)

\* C14: whatever list of entities the model returned without raising, the
\* detection result holds for each label exactly the texts of the entities
\* of that label in their order of appearance, as a scalar when there is one
\* and as a list of length k when there are k >= 2; no text is dropped or
\* overwritten.
C14_AdapterKeepsEveryEntity ==
  \A t \in Threads : cur[t] # None =>
    /\ (cur[t][1].pii_invoked = "oracle" /\ ~has_error(cur[t][1].pii_results))
         => adapted(cur[t][1].pii_entities, cur[t][1].pii_results)
    /\ (cur[t][1].phi_invoked = "oracle" /\ ~has_error(cur[t][1].phi_results))
         => adapted(cur[t][1].phi_entities, cur[t][1].phi_results)

\* Three entities of one label and two of another among those returned.
C14_Witness ==
  /\ cur[1] # None
  /\ cur[1][1].pii_invoked = "oracle"
  /\ Len(cur[1][1].pii_entities) = 5
  /\ get(cur[1][1].pii_results, "Patient Name")
       = <<many("Patient Name", <<"Mr. Ravi Kumar", "Sita Rao", "Uma Das">>)>>
  /\ get(cur[1][1].pii_results, "email")
       = <<many("email", <<"rk@mail.in", "sr@mail.in">>)>>
  /\ cur[1][1].phi_invoked = "oracle"
  /\ cur[1][1].phi_results = <<scalar("drug", "Aspirin")>>

\* What a detection returns when its model is not loaded or its try block
\* raised: the demonstration mapping without a call of the model, or the
\* mapping of the single key 'error' whose value ends with the message.
returned_in_band(model_, o, demo, failed) ==
  /\ model_ = None =>
       o.invoked = "demo" /\ o.result = demo /\ o.entities = <<>>
  /\ o.invoked = "demo" => model_ = None
  /\ o.raised # "" =>
       /\ o.result = <<scalar("error", failed \o o.raised)>>
       /\ \A i \in 1..Len(o.entities) :
            o.entities[i].label \notin labels_of(o.result)

\* C15: a detection on a text always returns a mapping: with the model not
\* loaded it is the fixed demonstration mapping and the model is not called;
\* when the call of the model or the loop over its entities raises, it is
\* the mapping {'error': message} alone, with none of the entities collected
\* before the fault.  Checked for the PII detection that has run on the file
\* in work and for every outcome of extract_pii_from_text and
\* extract_phi_from_text on its text.
C15_DetectionReturnsInBand ==
  \A t \in Threads : (cur[t] # None /\ ~startswith(cur[t][1].text, "Error:")) =>
    LET pii_demo == <<scalar("Patient Name", "John Doe"),
                      scalar("phone number", "+91-9876543210"),
                      scalar("email", "john.doe@example.com")>>
        phi_demo == <<scalar("medical condition", "Hypertension"),
                      scalar("medication", "Lisinopril 10mg"),
                      scalar("Age", "45")>>
    IN  /\ returned_in_band(model,
             [result |-> cur[t][1].pii_results, invoked |-> cur[t][1].pii_invoked,
              entities |-> cur[t][1].pii_entities, raised |-> cur[t][1].pii_raised],
             pii_demo, "PII Detection failed: ")
        /\ extract_pii_from_text(model, cur[t][1].text) # {}
        /\ \A o \in extract_pii_from_text(model, cur[t][1].text) :
             returned_in_band(model, o, pii_demo, "PII Detection failed: ")
        /\ extract_phi_from_text(model, cur[t][1].text) # {}
        /\ \A o \in extract_phi_from_text(model, cur[t][1].text) :
             returned_in_band(model, o, phi_demo, "PHI Detection failed: ")

\* The loop over five entities raised, and the result is the error mapping.
C15_Witness ==
  /\ cur[1] # None /\ model # None
  /\ Len(cur[1][1].pii_entities) = 5
  /\ cur[1][1].pii_raised = "'label'"
  /\ cur[1][1].pii_results = <<scalar("error", "PII Detection failed: 'label'")>>

\* The PHI fields of a row and the labels they are read from.
PHIKeys ==
  [Age |-> "Age", allergy |-> "allergy", blood_group |-> "blood group",
   drug |-> "medication", gender |-> "gender",
   medical_condition |-> "medical condition", surgery |-> "surgery",
   symptom |-> "symptom"]

\* The summary appended last by thread t.
last_summary(t) == processed_files[t][Len(processed_files[t])]

\* The fields of the row are the defaults of file_data.
defaults(t, fields) ==
  \E row \in file_data(cur[t][1].filename, <<>>, <<>>) :
    \A fld \in fields : last_row(t)[fld] = row[fld]

\* C16: in process_files the two detection results of a file are handled
\* apart.  A PII error mapping leaves the PII part of the row at its defaults
\* and the PII count at 0, a PHI error mapping does the same to the PHI part;
\* and whatever the other detection returned, a PHI mapping without error is
\* counted and read into the PHI fields, and a PII mapping without error is
\* counted, replaced and read into the PII fields.
C16_DetectionsIndependent ==
  \A t \in Threads : (PII_DETECTION_AVAILABLE /\ assembled(t)) =>
    LET pii == cur[t][1].pii_results
        phi == cur[t][1].phi_results
    IN  /\ has_error(pii) =>
              last_summary(t).pii_items = 0 /\ defaults(t, DOMAIN PIIFields)
        /\ has_error(phi) =>
              last_summary(t).phi_items = 0 /\ defaults(t, DOMAIN PHIKeys)
        /\ ~has_error(phi) =>
              /\ last_summary(t).phi_items = Len(phi)
              /\ \A fld \in DOMAIN PHIKeys :
                   get(phi, PHIKeys[fld]) # None =>
                     /\ last_row(t)[fld].list = get(phi, PHIKeys[fld])[1].list
                     /\ last_row(t)[fld].values = get(phi, PHIKeys[fld])[1].values
        /\ ~has_error(pii) =>
              /\ last_summary(t).pii_items = Len(pii)
              /\ \A fld \in DOMAIN PIIFields :
                   get(pii, PIIFields[fld]) # None =>
                     replaced_by_generator(t, last_row(t)[fld],
                                           get(pii, PIIFields[fld])[1])

\* Two files of one submission: the name of the first was replaced; the PII
\* detection of the second raised, and its medication is in the row all the
\* same, next to the default name.
C16_Witness ==
  /\ assembled(1) /\ PII_DETECTION_AVAILABLE
  /\ Len(pii_phi_rows[1]) = 2
  /\ pii_phi_rows[1][1].filename = "ravi.docx"
  /\ pii_phi_rows[1][1].Patient_Name.values[1] \in faker_name_male
  /\ processed_files[1][1].pii_items = 2
  /\ processed_files[1][1].phi_items = 0
  /\ cur[1][1].pii_raised # "" /\ has_error(cur[1][1].pii_results)
  /\ cur[1][1].phi_raised = ""
  /\ cur[1][1].phi_results = <<scalar("medication", "Metformin")>>
  /\ last_row(1).drug.values = <<"Metformin">>
  /\ last_row(1).Patient_Name.values = <<"John Doe">>
  /\ last_summary(1).pii_items = 0 /\ last_summary(1).phi_items = 1

\* The strategies whose extension list holds the extension e.
strategies(e) == {k \in DOMAIN supported_formats : e \in supported_formats[k]}

\* What extract_text says of an extension it has no strategy for.
unsupported(e) == "Error: Unsupported file format '" \o e \o "'"

\* C17: for a file that exists, the lower-cased extension alone decides how
\* its text is extracted: an extension of the supported vocabulary belongs to
\* exactly one of the five strategies and the text is what that strategy
\* returns for the file, any other extension gives the unsupported result,
\* and is_supported(path) holds exactly when the text is not the
\* unsupported result.
C17_ExtensionDecidesStrategy ==
  /\ \A e \in get_supported_extensions : Cardinality(strategies(e)) = 1
  /\ \A t \in Threads : (cur[t] # None /\ cur[t][1].file.exists) =>
       LET f == cur[t][1].file
           text == cur[t][1].text
           e == splitext(lower(f.path))
       IN  /\ Cardinality(strategies(e)) <= 1
           /\ strategies(e) = {} <=> text = unsupported(e)
           /\ strategies(e) = {"images"} => text = _extract_from_image(f)
           /\ strategies(e) = {"pdfs"} => text = _extract_from_pdf(f)
           /\ strategies(e) = {"word"} => text = _extract_from_word(f)
           /\ strategies(e) = {"excel"} => text = _extract_from_excel(f)
           /\ strategies(e) = {"archives"} => text = _extract_from_zip(f)
           /\ is_supported(f.path) <=> text # unsupported(e)

\* An image whose extension is written in upper case went to the image
\* strategy, and is supported.
C17_Witness ==
  /\ cur[1] # None
  /\ cur[1][1].file.path = "b.JPG"
  /\ cur[1][1].text = "OCR Error: unreadable"
  /\ is_supported("b.JPG")
  /\ ~is_supported("p.png.bak")

\* The texts pytesseract reads on the page images of a PDF, stripped.
ocr_readings(f, from) ==
  UNION {{strip(f.ocr[i][a].text) : a \in {b \in 1..2 : f.ocr[i][b].ok}} :
         i \in from..Len(f.ocr)} \ {""}

\* C18: for a PDF that opens, when some page has a text layer that is not
\* blank the text is the stripped layers of those pages alone and holds
\* nothing OCR would read on any page; when no page has one, at most five
\* page images are made and the text is what OCR reads on them: nothing of
\* a sixth or later page is in it.
C18_OCROnlyWithoutTextLayer ==
  \A t \in Threads :
    (cur[t] # None /\ cur[t][1].file.exists
       /\ file_ext(cur[t][1].file.path) = ".pdf"
       /\ cur[t][1].file.fault = "") =>
      LET f == cur[t][1].file
          text == cur[t][1].text
          layers == non_blank(f.pages, TRUE)
      IN  IF layers # <<>>
          THEN /\ text = join("\n\n", layers)
               /\ \A r \in ocr_readings(f, 1) : ~contains(text, r)
          ELSE f.raster_fault = "" =>
               /\ Len(convert_from_path(f)) <= 5
               /\ \A r \in ocr_readings(f, 6) : ~contains(text, r)
               /\ \A r \in ocr_readings(f, 1) \ ocr_readings(f, 6) :
                    contains(text, r)

\* A PDF of seven pages without a text layer: five pages were read.
C18_Witness ==
  /\ cur[1] # None
  /\ cur[1][1].file.path = "scan7.pdf"
  /\ Len(cur[1][1].file.pages) = 7
  /\ cur[1][1].text = "scan 1\n\nscan 2\n\nscan 3\n\nscan 4\n\nscan 5"

\* The line that announces the text of a member in the text of its archive.
announced(m) == "=== FILE: " \o m.path \o " ==="

\* C19: in the text of an archive that opens, a member is announced only if
\* its extension is supported and is not that of an archive and fewer than
\* ten such members come before it, and each such member that can be read is
\* announced; nothing of a nested archive, itself or its members, is in the
\* text.  The members extraction is applied to are at most ten and none is
\* an archive, so extraction never re-enters the archive strategy.
C19_ArchiveBounded ==
  \A t \in Threads :
    (cur[t] # None /\ cur[t][1].file.exists
       /\ file_ext(cur[t][1].file.path) = ".zip"
       /\ cur[t][1].file.fault = "") =>
      LET f == cur[t][1].file
          text == cur[t][1].text
          eligible == {k \in 1..Len(f.members) :
                         /\ is_supported(f.members[k].path)
                         /\ splitext(lower(f.members[k].path)) # ".zip"}
          first_ten == {k \in eligible :
                          Cardinality({j \in eligible : j < k}) < 10}
      IN  /\ \A k \in 1..Len(f.members) :
               contains(text, announced(f.members[k])) =>
                 k \in first_ten
          /\ \A k \in first_ten :
               f.members[k].fault = "" =>
                 contains(text, announced(f.members[k]))
          /\ \A k \in 1..Len(f.members) :
               splitext(lower(f.members[k].path)) = ".zip" =>
                 \A i \in 1..Len(f.members[k].members) :
                   ~contains(text, announced(f.members[k].members[i]))
          /\ Len(zip_members(f)) <= 10
          /\ \A i \in 1..Len(zip_members(f)) :
               splitext(lower(zip_members(f)[i].path)) # ".zip"

\* An archive of twelve documents, an inner archive and a text file: the
\* tenth document is in the text, the eleventh is not.
C19_Witness ==
  /\ cur[1] # None
  /\ cur[1][1].file.path = "pack12.zip"
  /\ contains(cur[1][1].text, "=== FILE: memo10.docx ===\nmemo 10\n")
  /\ ~contains(cur[1][1].text, "memo11")
  /\ ~contains(cur[1][1].text, "inner")

\* The messages the handlers of the strategies make of an exception.
fault_messages(fault) ==
  {prefix \o fault :
     prefix \in {"OCR Error: ", "Error processing PDF: ", "PDF OCR failed: ",
                 "Error processing Word document: ",
                 "Error processing Excel file: ", "Error processing ZIP file: "}}

\* C20: extract_text returns a text that is not empty for every file,
\* whatever is raised while it is read: the not-found message for a missing
\* file; for a supported file whose library raises on opening, parsing or
\* rasterising, the message of that exception behind the strategy's prefix;
\* otherwise the text that was read or a no-text sentence, OCR attempts that
\* raise being passed over.
C20_ExtractTextReturns ==
  \A t \in Threads : cur[t] # None =>
    LET f == cur[t][1].file
        text == cur[t][1].text
    IN  /\ text # "" /\ strip(text) # ""
        /\ ~f.exists => text = "Error: File '" \o f.path \o "' not found"
        /\ (f.exists /\ is_supported(f.path) /\ f.fault # "") =>
             text \in fault_messages(f.fault)
        /\ (f.exists /\ is_supported(f.path) /\ f.fault = ""
              /\ extraction_failed(f)) =>
             text = "PDF OCR failed: " \o f.raster_fault
        /\ (f.exists /\ is_supported(f.path) /\ ~extraction_failed(f)) =>
             \A m \in fault_messages("") : ~startswith(text, m)

\* A Word file that python-docx cannot open: the message came back as text.
C20_Witness ==
  /\ cur[1] # None
  /\ cur[1][1].file.path = "old.doc"
  /\ cur[1][1].file.fault = "file 'old.doc' is not a Word file"
  /\ cur[1][1].text
       = "Error processing Word document: file 'old.doc' is not a Word file"

\* No label test of generate_fake_value matches the label: with a value that
\* names no insurer the chain ends in its else branch.
unmatched(label) ==
  \A g \in fresh_value(label, "x", None) : g.rule = "fallback"

\* C21: a value generated for a label that none of the label tests matches
\* is "[FAKE_" + the upper-cased label with every character outside
\* A-Z, 0-9 and "_" turned into "_" + "]", whatever the original value is.
C21_FallbackPlaceholder ==
  \A t \in Threads : \A c \in Calls(t) :
    (unmatched(c.label) /\ c.rule # "cache") =>
      c.value = "[FAKE_"
                  \o re_sub_not("ABCDEFGHIJKLMNOPQRSTUVWXYZ0123456789_", "_",
                                upper(c.label))
                  \o "]"

\* The results of an extraction that found no text.
no_text_results ==
  {"No text found in image", "No text could be extracted from this PDF",
   "No text found in Word document", "No text found in Excel file",
   "No text could be extracted from files in ZIP archive"}

\* C22: in the text of an archive that opens, a member whose extraction
\* failed or found no text is not announced and adds nothing, a later member
\* that has text is announced all the same, and when no member has text the
\* result is the archive's no-text sentence.
C22_ArchiveSkipsFailedMembers ==
  \A t \in Threads :
    (cur[t] # None /\ cur[t][1].file.exists
       /\ file_ext(cur[t][1].file.path) = ".zip"
       /\ cur[t][1].file.fault = "") =>
      LET f == cur[t][1].file
          text == cur[t][1].text
          members == zip_members(f)
          usable == {k \in 1..Len(members) :
                       /\ ~extraction_failed(members[k])
                       /\ extract_text(members[k]) \notin no_text_results}
      IN  /\ \A k \in 1..Len(members) :
               contains(text, announced(members[k])) <=> k \in usable
          /\ usable = {} =>
               text = "No text could be extracted from files in ZIP archive"

\* The header (part = "header") or footer paragraphs of all sections that
\* are not blank, each behind its marker.
RECURSIVE marked_part(_, _)
marked_part(sections, part) ==
  IF sections = <<>> THEN <<>>
  ELSE LET ps == non_blank(IF part = "header" THEN sections[1].header
                           ELSE sections[1].footer, FALSE)
           m == IF part = "header" THEN "[HEADER] " ELSE "[FOOTER] "
       IN  [i \in 1..Len(ps) |-> m \o ps[i]] \o marked_part(Tail(sections), part)

\* C23: the text of a Word document that was read and is not empty is, line
\* by line, its body paragraphs that are not blank, then its table rows,
\* then the header paragraphs of all its sections, then the footer
\* paragraphs of all its sections: no footer line comes before a header
\* line.
C23_WordGroupsInOrder ==
  \A t \in Threads :
    (cur[t] # None /\ cur[t][1].file.exists
       /\ file_ext(cur[t][1].file.path) \in supported_formats.word
       /\ cur[t][1].file.fault = ""
       /\ cur[t][1].text # "No text found in Word document") =>
      LET f == cur[t][1].file
      IN  cur[t][1].text =
            join("\n", non_blank(f.paragraphs, FALSE) \o table_rows(f.rows, TRUE)
                         \o marked_part(f.sections, "header")
                         \o marked_part(f.sections, "footer"))

\* Every OCR attempt made on the file raised: the three on an image that
\* opens, the two on each rasterised page of a PDF without a text layer.
ocr_faulted(f) ==
  LET e == file_ext(f.path)
  IN  /\ f.exists /\ f.fault = ""
      /\ \/ /\ e \in supported_formats.images
            /\ \A i \in 1..Len(f.ocr) : ~f.ocr[i].ok
         \/ /\ e \in supported_formats.pdfs
            /\ non_blank(f.pages, TRUE) = <<>>
            /\ f.raster_fault = ""
            /\ \A i \in 1..Len(convert_from_path(f)) :
                 \A j \in 1..2 : ~convert_from_path(f)[i][j].ok

\* C24: when every OCR attempt on a file raised, the text returned is not
\* one of the results of an extraction that ran and found no text.
C24_OCRFaultIsNotEmptySuccess ==
  \A t \in Threads :
    (cur[t] # None /\ ocr_faulted(cur[t][1].file)) =>
      cur[t][1].text \notin no_text_results

\* C25: in a pass on a fresh generator, a patient-name original carrying
\* the title 'Mr.' is replaced by the male-name branch, and the replacement
\* of a Hospital ID is 'HOSP-' followed by exactly seven digits.
C25_MaleNameAndHospitalID ==
  \A t \in Threads : \A c \in Calls(t) :
    c.rule # "cache" =>
      /\ (is_patient_name(c.label) /\ contains(c.original, "Mr.")) =>
           /\ c.rule = "name_male"
           /\ c.value \in faker_name_male
      /\ c.label = "Hospital ID" =>
           /\ Len(c.value) = 12
           /\ SubSeq(c.value, 1, 5) = "HOSP-"
           /\ \A i \in 6..12 : contains("0123456789", char(c.value, i))

\* The pass on {'Patient Name': 'Mr. Ravi Kumar', 'Hospital ID':
\* 'HOSP1234567'} has returned both replacements.
C25_Witness ==
  /\ pc[1] = "done"
  /\ labels_of(pii_json[1]) = {"Patient Name", "Hospital ID"}
  /\ \E c \in Calls(1) :
       c.original = "Mr. Ravi Kumar" /\ c.rule = "name_male"
  /\ \E c \in Calls(1) :
       c.original = "HOSP1234567" /\ c.value = "HOSP-9999999"

\* C26: during a pass the name anchor, once it is set, keeps its value
\* until the pass returns: it is assigned once, and every email of the pass
\* is derived from that one name.
C26_AnchorSetOnce ==
  [][(pc[1] = "run" /\ current_patient_name # None) =>
       current_patient_name' = current_patient_name]_vars

\* C27: a call answered from the cache of a generator that started empty
\* returns the value that an earlier call for the same label and the same
\* original value returned: no entry is shared by two different pairs.
C27_CacheKeyedByPair ==
  \A t \in Threads : \A i \in 1..Len(log[t]) :
    log[t][i].rule = "cache" =>
      \E j \in 1..(i - 1) :
        /\ log[t][j].label = log[t][i].label
        /\ log[t][j].original = log[t][i].original
        /\ log[t][j].value = log[t][i].value

\* C28: a call of generate_fake_value for a patient-name label leaves the
\* name anchor equal to the value it returns, whether the value was
\* generated or came from the cache.
C28_AnchorFollowsNameCall ==
  [][\A t \in Threads :
       (/\ Len(log'[t]) = Len(log[t]) + 1
        /\ is_patient_name(log'[t][Len(log'[t])].label)) =>
         current_patient_name' = <<log'[t][Len(log'[t])].value>>]_vars

\* C29: whichever way the extraction of an archive ended (text, the no-text
\* sentence, a fault while unpacking, a member that could not be read), no
\* temporary directory exists once it has returned.
C29_TempDirReleased ==
  \A t \in Threads :
    (cur[t] # None /\ cur[t][1].file.exists
       /\ file_ext(cur[t][1].file.path) = ".zip") =>
      cur[t][1].temp_dirs = {}

\* An archive that could not be unpacked has been reported.
C29_Witness ==
  /\ cur[1] # None
  /\ cur[1][1].file.path = "bundle.zip"
  /\ cur[1][1].text = "Error processing ZIP file: File is not a zip file"
  /\ cur[1][1].temp_dirs = {}

\* C30: for a file whose text was extracted, what extract_phi_from_file
\* returned is what extract_phi_from_text returns for that text under the
\* same answer of the oracle, whether the oracle is loaded, faults or is
\* absent.
C30_PHIEntryPointsAgree ==
  \A t \in Threads :
    (cur[t] # None /\ cur[t][1].phi_invoked \in {"demo", "oracle"}
       /\ ~extraction_failed(cur[t][1].file)) =>
      \E r \in extract_phi_from_text(model, cur[t][1].text) :
        /\ r.entities = cur[t][1].phi_entities
        /\ r.raised = cur[t][1].phi_raised
        /\ r.result = cur[t][1].phi_results

=============================================================================
